---- MODULE Spec2Model ----
(***************************************************************************)
(* Model of the document store (files, active file, cursor, selection,    *)
(* save state, history, persistence), of the editor's update listener and *)
(* of the selection-optimise bar (runTransform, handleLine, applyPreview). *)
(*                                                                         *)
(* Text is a sequence of one-character strings; offsets are 0-based as in *)
(* the source, so Slice(s, a, b) is s.slice(a, b).  A nullable value is a *)
(* sequence of length 0 (null) or 1.  File ids are integers, 0 being the  *)
(* id "default-tex"; NoId stands for a null id.                            *)
(***************************************************************************)
EXTENDS Integers, Sequences, FiniteSets, TLC

Min(a, b) == IF a <= b THEN a ELSE b

Max(a, b) == IF a >= b THEN a ELSE b

None == <<>>

Some(x) == <<x>>

NoId == -1

NoTime == -1

(***************************************************************************)
(* String primitives of the host language, as the source uses them.       *)
(***************************************************************************)
Whitespace == {" ", "\n", "\t"}

Slice(s, a, b) ==
  LET from == Min(Max(a, 0), Len(s))
      to   == Min(Max(b, 0), Len(s))
  IN  IF from >= to THEN <<>> ELSE SubSeq(s, from + 1, to)

SliceFrom(s, a) == Slice(s, a, Len(s))

MatchAt(s, needle, i) ==
  /\ i + Len(needle) <= Len(s)
  /\ SubSeq(s, i + 1, i + Len(needle)) = needle

Occurrences(s, needle) == {i \in 0..(Len(s) - Len(needle)) : MatchAt(s, needle, i)}

MinOf(S) == CHOOSE i \in S : \A j \in S : i <= j

IndexOf(s, needle) ==
  IF Occurrences(s, needle) = {} THEN -1 ELSE MinOf(Occurrences(s, needle))

Includes(s, needle) == IndexOf(s, needle) # -1

RECURSIVE TrimStart(_)
TrimStart(s) ==
  IF s = <<>> THEN s
  ELSE IF s[1] \notin Whitespace THEN s
  ELSE TrimStart(Tail(s))

RECURSIVE TrimEnd(_)
TrimEnd(s) ==
  IF s = <<>> THEN s
  ELSE IF s[Len(s)] \notin Whitespace THEN s
  ELSE TrimEnd(SubSeq(s, 1, Len(s) - 1))

Trim(s) == TrimEnd(TrimStart(s))

RECURSIVE SplitWhitespace(_)
SplitWhitespace(s) ==
  LET ws == {i \in 1..Len(s) : s[i] \in Whitespace}
  IN  IF ws = {} THEN <<s>>
      ELSE LET i    == MinOf(ws)
               rest == {j \in (i + 1)..Len(s) : s[j] \notin Whitespace}
           IN  IF rest = {} THEN <<SubSeq(s, 1, i - 1), <<>>>>
               ELSE <<SubSeq(s, 1, i - 1)>> \o
                    SplitWhitespace(SubSeq(s, MinOf(rest), Len(s)))

(* End offset of a match of tokens[k..] joined by \s+ starting at pos, or -1. *)
RECURSIVE TokensMatchEnd(_, _, _, _)
TokensMatchEnd(s, pos, tokens, k) ==
  IF ~MatchAt(s, tokens[k], pos) THEN -1
  ELSE LET after == pos + Len(tokens[k])
       IN  IF k = Len(tokens) THEN after
           ELSE LET nonws == {j \in after..(Len(s) - 1) : s[j + 1] \notin Whitespace}
                    next  == IF nonws = {} THEN Len(s) ELSE MinOf(nonws)
                IN  IF next = after THEN -1
                    ELSE TokensMatchEnd(s, next, tokens, k + 1)

(* Leftmost match of new RegExp(tokens.join("\\s+"), "m"): <<>> or <<[from, to]>>. *)
RegexSearch(s, tokens) ==
  LET starts == {i \in 0..Len(s) : TokensMatchEnd(s, i, tokens, 1) # -1}
  IN  IF starts = {} THEN None
      ELSE Some([from |-> MinOf(starts),
                 to   |-> TokensMatchEnd(s, MinOf(starts), tokens, 1)])

(* String.prototype.replace with a string replacement: $$, $&, $` and $'  *)
(* are substitution patterns; every other character is copied.            *)
RECURSIVE GetSubstitution(_, _, _, _)
GetSubstitution(repl, matched, before, after) ==
  IF repl = <<>> THEN <<>>
  ELSE IF repl[1] = "$" /\ Len(repl) >= 2 /\ repl[2] \in {"$", "&", "`", "'"}
       THEN (CASE repl[2] = "$" -> <<"$">>
               [] repl[2] = "&" -> matched
               [] repl[2] = "`" -> before
               [] repl[2] = "'" -> after)
            \o GetSubstitution(SubSeq(repl, 3, Len(repl)), matched, before, after)
       ELSE <<repl[1]>> \o GetSubstitution(Tail(repl), matched, before, after)

(* content.replace(find, replace) where content.includes(find). *)
ReplaceFirst(content, find, replace) ==
  LET i == IndexOf(content, find)
  IN  Slice(content, 0, i)
      \o GetSubstitution(replace, find, Slice(content, 0, i),
                         SliceFrom(content, i + Len(find)))
      \o SliceFrom(content, i + Len(find))

(* content.slice(0, from) + text + content.slice(to); also what               *)
(* content.replace(regex, () => replace) does to the match [from, to).        *)
ReplaceRange(content, from, to, text) ==
  Slice(content, 0, from) \o text \o SliceFrom(content, to)


(***************************************************************************)
(* State.                                                                  *)
(***************************************************************************)
VARIABLES
  files,             \* DocumentState.files: sequence of ProjectFile records
  activeFileId,      \* DocumentState.activeFileId
  cursorPosition,    \* DocumentState.cursorPosition
  selectionRange,    \* DocumentState.selectionRange: None or Some([start, end])
  isSaving,          \* DocumentState.isSaving
  hasUnsavedChanges, \* DocumentState.hasUnsavedChanges
  lastSavedAt,       \* DocumentState.lastSavedAt: NoTime or a time
  historyEntries,    \* DocumentState.historyEntries, newest first
  hydratedKey,       \* DocumentState.hydratedKey: None or Some(key)
  persistName,       \* the persist middleware's options.name
  storage,           \* indexedDBStorage: key -> None or Some(persisted state)
  activeProjectId,   \* ProjectState.activeProjectId: None or Some(project)
  hydration,         \* the running document-hydration effects (async bodies)
  editorMounted,     \* centerView = "editor": LatexEditor is rendered
  timers,            \* pending window.setTimeout(markSaved, 800): due times
  saveDebounceRef,   \* LatexEditor.saveDebounceRef.current: None or Some(due)
  preview,           \* SelectionOptimizeBar.preview: None or Some(record)
  isWorking,         \* SelectionOptimizeBar.isWorking
  instructionInput,  \* SelectionOptimizeBar.instructionInput
  requests,          \* the running runTransform calls (async bodies)
  nextId,            \* the next value generateId() returns
  nextReq,           \* history: the number of the next runTransform call
  edits,             \* history: how many editor edits were made
  now,               \* Date.now()
  lastEditAt,        \* history: time of the last editor edit
  actor,             \* history: what the last step was
  previewOwner,      \* history: the request that installed the preview
  capturedDoc,       \* history: the document when the preview's span was captured
  applyLog,          \* history: what the last applyPreview call did
  treeLog            \* history: what the last file-tree call did

storeVars == <<files, activeFileId, cursorPosition, selectionRange, isSaving,
               hasUnsavedChanges, lastSavedAt, historyEntries, hydratedKey>>

persistVars == <<persistName, storage, activeProjectId, hydration>>

editorVars == <<editorMounted, timers, saveDebounceRef, lastEditAt>>

barVars == <<preview, isWorking, instructionInput, requests, previewOwner, nextReq,
             capturedDoc>>

vars == <<storeVars, persistVars, editorVars, barVars, nextId, now, edits, actor, applyLog, treeLog>>

(***************************************************************************)
(* The document store's helpers.                                           *)
(***************************************************************************)
FileById(fs, id) ==
  LET hits == {i \in 1..Len(fs) : fs[i].id = id}
  IN  IF hits = {} THEN None ELSE Some(fs[MinOf(hits)])

getActiveFile(fs, active) ==
  LET exact     == FileById(fs, active)
      nonFolder == {i \in 1..Len(fs) : fs[i].type # "folder"}
  IN  IF exact # None /\ exact[1].type # "folder" THEN exact
      ELSE IF nonFolder = {} THEN None ELSE Some(fs[MinOf(nonFolder)])

(* get content() *)
ContentOf(fs, active) ==
  IF getActiveFile(fs, active) = None THEN <<>>
  ELSE getActiveFile(fs, active)[1].content

(* files.map((f) => f.id === id ? { ...f, content } : f) *)
WithContent(fs, id, content) ==
  [i \in 1..Len(fs) |->
     IF fs[i].id = id THEN [fs[i] EXCEPT !.content = content] ELSE fs[i]]

(* partialize (pdfData is not modelled) *)
Partialize(fs, active, history, savedAt) ==
  [files |-> fs, activeFileId |-> active, historyEntries |-> history,
   lastSavedAt |-> savedAt]

(* The persist middleware writes the partialized state under options.name *)
(* after every set().                                                      *)
PersistWrite ==
  storage' = [storage EXCEPT ![persistName] =
                Some(Partialize(files', activeFileId', historyEntries', lastSavedAt'))]

(***************************************************************************)
(* What LatexEditor renders.                                               *)
(***************************************************************************)
(* isTexFile: files.find((f) => f.id === activeFileId)?.type === "tex" *)
IsTexFile(fs, active) ==
  FileById(fs, active) # None /\ FileById(fs, active)[1].type = "tex"

(* The EditorView exists while LatexEditor is mounted on a tex file. *)
ViewAttachedIn(fs, active, mounted) == mounted /\ IsTexFile(fs, active)

ViewAttached == ViewAttachedIn(files, activeFileId, editorMounted)

(* SelectionOptimizeBar is rendered unless the image branch is. *)
BarMountedIn(fs, active, mounted) ==
  mounted /\ (IsTexFile(fs, active) \/ FileById(fs, active) = None)

BarMounted == BarMountedIn(files, activeFileId, editorMounted)

(* The document the bar reads: view.state.doc, else the store's content. *)
CurrentDoc == ContentOf(files, activeFileId)


(* No request: the step was the user's. *)
NoReq == NoId

NoApply == [outcome |-> "none", tier |-> "none", from |-> -1, flip |-> FALSE]

NoTreeCall == [op |-> "none", id |-> NoId, ignored |-> FALSE]

(* A call of a file-tree action of the store, and whether it returned     *)
(* without calling set().                                                  *)
TreeCall(op, id, ignored) ==
  treeLog' = [op |-> op, id |-> id, ignored |-> ignored]

(* React drops the bar's state when the bar is unmounted; the setState    *)
(* calls of a runTransform call of an unmounted bar change nothing.       *)
BarRender ==
  IF BarMountedIn(files', activeFileId', editorMounted')
  THEN UNCHANGED barVars
  ELSE /\ preview' = None
       /\ isWorking' = FALSE
       /\ instructionInput' = <<>>
       /\ requests' = {[r EXCEPT !.orphan = TRUE] : r \in requests}
       /\ previewOwner' = NoReq
       /\ UNCHANGED <<nextReq, capturedDoc>>

(* What every step that is not a step of a runTransform call leaves alone. *)
UserStep == actor' = NoReq

(***************************************************************************)
(* The editor: EditorView.updateListener.                                  *)
(***************************************************************************)
SaveDebounceMs == 800

(* clearTimeout(saveDebounceRef.current); setTimeout(markSaved, 800) *)
RestartedTimers ==
  ((IF saveDebounceRef = None THEN timers ELSE timers \ {saveDebounceRef[1]})
   \cup {now + SaveDebounceMs})

(* update.docChanged: setContent(doc); markDirty(); restart the timer.    *)
(* setContent maps over f.id === state.activeFileId.                      *)
DocChanged(newDoc) ==
  /\ files' = WithContent(files, activeFileId, newDoc)
  /\ isSaving' = TRUE
  /\ hasUnsavedChanges' = TRUE
  /\ lastSavedAt' = lastSavedAt
  /\ timers' = RestartedTimers
  /\ saveDebounceRef' = Some(now + SaveDebounceMs)
  /\ lastEditAt' = now

(* update.selectionSet: setCursorPosition(head); setSelectionRange(...).  *)
SelectionSet(from, to, head) ==
  /\ cursorPosition' = head
  /\ selectionRange' = IF from # to THEN Some([start |-> from, end |-> to]) ELSE None

(* A transaction of the view that changes [from, to) to insert and puts   *)
(* the cursor at anchor.                                                   *)
ViewTransaction(from, to, insert, anchor) ==
  /\ DocChanged(ReplaceRange(CurrentDoc, from, to, insert))
  /\ SelectionSet(anchor, anchor, anchor)
  /\ UNCHANGED <<activeFileId, historyEntries, hydratedKey, editorMounted>>
  /\ PersistWrite

(* EditorView.dispatch accepts a change only if it lies in the document. *)
ValidChange(from, to) == 0 <= from /\ from <= to /\ to <= Len(CurrentDoc)


saveVars == <<isSaving, hasUnsavedChanges, lastSavedAt>>

cursorVars == <<cursorPosition, selectionRange>>

timerVars == <<timers, saveDebounceRef, lastEditAt>>

persistFrame == <<persistName, activeProjectId, hydration>>

(* The user types, pastes or deletes in the editor. *)
TypeInEditor(from, to, insert, maxEdits) ==
  /\ ViewAttached
  /\ ValidChange(from, to)
  /\ edits < maxEdits
  /\ edits' = edits + 1
  /\ ViewTransaction(from, to, insert, from + Len(insert))
  /\ UNCHANGED <<persistFrame, barVars, nextId, now, applyLog, treeLog>>
  /\ UserStep

(* The user moves the cursor or selects [from, to) in the editor. *)
SelectInEditor(from, to) ==
  /\ ViewAttached
  /\ ValidChange(from, to)
  /\ SelectionSet(from, to, to)
  /\ UNCHANGED <<files, activeFileId, saveVars, historyEntries, hydratedKey>>
  /\ PersistWrite
  /\ UNCHANGED <<persistFrame, editorVars, barVars, nextId, now, edits, applyLog, treeLog>>
  /\ UserStep

(***************************************************************************)
(* The document store's actions.                                           *)
(***************************************************************************)
setActiveFile(id) ==
  /\ activeFileId' = id
  /\ cursorPosition' = 0
  /\ selectionRange' = None
  /\ UNCHANGED <<files, saveVars, historyEntries, hydratedKey>>
  /\ PersistWrite
  /\ UNCHANGED <<persistFrame, editorVars, nextId, now, edits, applyLog, treeLog>>
  /\ BarRender
  /\ UserStep

(* What a file-tree call that returns before set() leaves alone. *)
Ignored(op, id) ==
  /\ TreeCall(op, id, TRUE)
  /\ UNCHANGED <<storeVars, persistVars, editorVars, barVars, nextId, now, edits,
                 applyLog>>
  /\ UserStep

addFile(file, maxIds) ==
  /\ nextId < maxIds
  /\ nextId' = nextId + 1
  /\ files' = Append(files, [id |-> nextId, name |-> file.name, type |-> file.type,
                             parentId |-> file.parentId, content |-> file.content])
  /\ activeFileId' = nextId
  /\ UNCHANGED <<cursorVars, saveVars, historyEntries, hydratedKey>>
  /\ PersistWrite
  /\ UNCHANGED <<persistFrame, editorVars, now, edits, applyLog>>
  /\ TreeCall("addFile", nextId, FALSE)
  /\ BarRender
  /\ UserStep

(* name.trim() || "新建文件夹", for a name that is trimmed or blank *)
DefaultFolderName == "folder"

addFolder(name, parentId, maxIds) ==
  /\ nextId < maxIds
  /\ nextId' = nextId + 1
  /\ files' = Append(files, [id |-> nextId,
                             name |-> IF name = "" THEN DefaultFolderName ELSE name,
                             type |-> "folder", parentId |-> parentId,
                             content |-> <<>>])
  /\ UNCHANGED <<activeFileId, cursorVars, saveVars, historyEntries, hydratedKey>>
  /\ PersistWrite
  /\ UNCHANGED <<persistFrame, editorVars, now, edits, applyLog>>
  /\ TreeCall("addFolder", nextId, FALSE)
  /\ BarRender
  /\ UserStep

(* files.map((f) => f.id === id ? { ...f, parentId } : f) *)
WithParent(fs, id, parentId) ==
  [i \in 1..Len(fs) |->
     IF fs[i].id = id THEN [fs[i] EXCEPT !.parentId = parentId] ELSE fs[i]]

moveFile(id, parentId) ==
  LET target == FileById(files, id)
      parent == FileById(files, parentId)
  IN  IF \/ target = None
         \/ target[1].type = "folder"
         \/ parentId # NoId /\ (parent = None \/ parent[1].type # "folder")
      THEN Ignored("moveFile", id)
      ELSE /\ files' = WithParent(files, id, parentId)
           /\ UNCHANGED <<activeFileId, cursorVars, saveVars, historyEntries,
                          hydratedKey>>
           /\ PersistWrite
           /\ UNCHANGED <<persistFrame, editorVars, nextId, now, edits, applyLog>>
           /\ TreeCall("moveFile", id, FALSE)
           /\ BarRender
           /\ UserStep

(* files.map((f) => f.id === id ? { ...f, name } : f) *)
WithName(fs, id, name) ==
  [i \in 1..Len(fs) |->
     IF fs[i].id = id THEN [fs[i] EXCEPT !.name = name] ELSE fs[i]]

renameFile(id, name) ==
  /\ files' = WithName(files, id, name)
  /\ UNCHANGED <<activeFileId, cursorVars, saveVars, historyEntries, hydratedKey>>
  /\ PersistWrite
  /\ UNCHANGED <<persistFrame, editorVars, nextId, now, edits, applyLog>>
  /\ TreeCall("renameFile", id, FALSE)
  /\ BarRender
  /\ UserStep

(* collectFolderChildren: ids plus everything below a folder of ids. *)
RECURSIVE CollectFolderChildren(_, _)
CollectFolderChildren(fs, ids) ==
  LET more == {fs[i].id : i \in {j \in 1..Len(fs) :
                 /\ fs[j].parentId \in ids
                 /\ FileById(fs, fs[j].parentId) # None
                 /\ FileById(fs, fs[j].parentId)[1].type = "folder"}}
  IN  IF more \subseteq ids THEN ids ELSE CollectFolderChildren(fs, ids \cup more)

IdsToDelete(fs, id) == CollectFolderChildren(fs, {id})

(* nextFiles, without the filter on the type *)
RemainingNodes(fs, id) ==
  LET keep(f) == f.id \notin IdsToDelete(fs, id)
  IN  SelectSeq(fs, keep)

(* nextFiles.filter((f) => f.type !== "folder") *)
RemainingNonFolder(fs, id) ==
  LET keep(f)      == f.id \notin IdsToDelete(fs, id)
      nonFolder(f) == f.type # "folder"
  IN  SelectSeq(SelectSeq(fs, keep), nonFolder)

(* if (remainingNonFolder.length === 0) return; *)
DeleteRejected(fs, id) == RemainingNonFolder(fs, id) = <<>>

deleteFile(id) ==
  LET idsToDelete        == IdsToDelete(files, id)
      keep(f)            == f.id \notin idsToDelete
      nextFiles          == SelectSeq(files, keep)
      remainingNonFolder == RemainingNonFolder(files, id)
  IN  IF FileById(files, id) = None \/ DeleteRejected(files, id)
      THEN Ignored("deleteFile", id)
      ELSE /\ files' = nextFiles
           /\ activeFileId' = IF activeFileId \in idsToDelete
                              THEN remainingNonFolder[1].id ELSE activeFileId
           /\ UNCHANGED <<cursorVars, saveVars, historyEntries, hydratedKey>>
           /\ PersistWrite
           /\ UNCHANGED <<persistFrame, editorVars, nextId, now, edits, applyLog>>
           /\ TreeCall("deleteFile", id, FALSE)
           /\ BarRender
           /\ UserStep

markDirty ==
  /\ isSaving' = TRUE
  /\ hasUnsavedChanges' = TRUE
  /\ lastSavedAt' = lastSavedAt

markSaved ==
  /\ isSaving' = FALSE
  /\ hasUnsavedChanges' = FALSE
  /\ lastSavedAt' = now

HistoryCap == 50

(* history ++ [entry], cut to the cap: the oldest first *)
PushHistoryOldestFirst(entry, history) ==
  SubSeq(history \o <<entry>>, 1, Min(HistoryCap, Len(history) + 1))

(* [entry, ...s.historyEntries].slice(0, 50) *)
PushHistory(entry, history) ==
  SubSeq(<<entry>> \o history, 1, Min(HistoryCap, Len(history) + 1))

saveHistoryEntry(maxIds) ==
  LET activeFile == getActiveFile(files, activeFileId)
  IN  /\ activeFile # None
      /\ activeFile[1].type = "tex"
      /\ nextId < maxIds
      /\ nextId' = nextId + 1
      /\ historyEntries' =
           PushHistory([id |-> nextId, fileId |-> activeFile[1].id, createdAt |-> now,
                        content |-> activeFile[1].content], historyEntries)
      /\ UNCHANGED <<files, activeFileId, cursorVars, saveVars, hydratedKey>>
      /\ PersistWrite
      /\ UNCHANGED <<persistFrame, editorVars, barVars, now, edits, applyLog, treeLog>>
      /\ UserStep

restoreHistoryEntry(k) ==
  /\ k \in 1..Len(historyEntries)
  /\ activeFileId' = historyEntries[k].fileId
  /\ files' = WithContent(files, historyEntries[k].fileId, historyEntries[k].content)
  /\ UNCHANGED <<cursorVars, saveVars, historyEntries, hydratedKey>>
  /\ PersistWrite
  /\ UNCHANGED <<persistFrame, editorVars, nextId, now, edits, applyLog, treeLog>>
  /\ BarRender
  /\ UserStep


(***************************************************************************)
(* SelectionOptimizeBar: runTransform.                                     *)
(***************************************************************************)
MaxSourceLen == 4000

AnalysisCap == 12

(* Buttons that stay enabled while a request is running. *)
TransformAlwaysEnabled == TRUE

(* disabled={isWorking} on every button that calls runTransform *)
TransformEnabled == ~isWorking

(* if (!range.original.trim()) return; if (range.original.length > 4000) return; *)
RangeAccepted(range) ==
  /\ Trim(range.original) # <<>>
  /\ Len(range.original) <= MaxSourceLen

(* The body of runTransform from the validation to the fetch call. *)
runTransform(mode, range, inputText, doc, maxReqs) ==
  /\ nextReq < maxReqs
  /\ IF RangeAccepted(range)
     THEN /\ isWorking' = TRUE
          /\ preview' = Some([start |-> range.start, end |-> range.end, mode |-> mode,
                              original |-> range.original, status |-> "loading",
                              next |-> <<>>, changes |-> <<>>, error |-> <<>>])
          /\ requests' = requests \cup
                           {[id |-> nextReq, pc |-> "fetch", text |-> inputText,
                             orphan |-> FALSE, lines |-> 0, dropped |-> 0,
                             received |-> <<>>, sawDone |-> FALSE,
                             srv |-> "start", sent |-> <<>>]}
          /\ nextReq' = nextReq + 1
          /\ previewOwner' = nextReq
          /\ capturedDoc' = doc
     ELSE UNCHANGED <<isWorking, preview, requests, nextReq, previewOwner, capturedDoc>>
  /\ UNCHANGED <<storeVars, persistVars, editorVars, nextId, now, edits, applyLog, treeLog>>
  /\ UserStep

(* A toolbar button: the range is the selection, the text its slice. *)
TransformSelection(mode, maxReqs) ==
  /\ BarMounted
  /\ ViewAttached
  /\ selectionRange # None
  /\ TransformEnabled
  /\ runTransform(mode,
                  [start    |-> selectionRange[1].start,
                   end      |-> selectionRange[1].end,
                   original |-> Slice(CurrentDoc, selectionRange[1].start,
                                      selectionRange[1].end)],
                  Slice(CurrentDoc, selectionRange[1].start, selectionRange[1].end),
                  CurrentDoc, maxReqs)
  /\ UNCHANGED instructionInput

PreviewRange ==
  [start |-> preview[1].start, end |-> preview[1].end, original |-> preview[1].original]

(* The dialog's "regenerate" button. *)
Regenerate(mode, maxReqs) ==
  /\ BarMounted
  /\ preview # None
  /\ TransformEnabled
  /\ runTransform(mode, PreviewRange, preview[1].original, capturedDoc, maxReqs)
  /\ UNCHANGED instructionInput

(* The dialog's "send" button: the text sent is the previous result. *)
ContinueEditing(mode, maxReqs) ==
  /\ BarMounted
  /\ preview # None
  /\ TransformEnabled
  /\ Trim(instructionInput) # <<>>
  /\ instructionInput' = <<>>
  /\ runTransform(mode, PreviewRange,
                  IF Trim(preview[1].next) # <<>> THEN preview[1].next
                  ELSE preview[1].original,
                  capturedDoc, maxReqs)

(* The dialog's instruction box. *)
setInstructionInput(text) ==
  /\ BarMounted
  /\ preview # None
  /\ instructionInput' = text
  /\ UNCHANGED <<preview, isWorking, requests, previewOwner, nextReq, capturedDoc>>
  /\ UNCHANGED <<storeVars, persistVars, editorVars, nextId, now, edits, applyLog, treeLog>>
  /\ UserStep

(* Dialog.onOpenChange(false) and the "do not use" button. *)
DismissPreview(byDialog) ==
  /\ BarMounted
  /\ preview # None
  /\ preview' = None
  /\ instructionInput' = IF byDialog THEN <<>> ELSE instructionInput
  /\ UNCHANGED <<isWorking, requests, previewOwner, nextReq, capturedDoc>>
  /\ UNCHANGED <<storeVars, persistVars, editorVars, nextId, now, edits, applyLog, treeLog>>
  /\ UserStep


(***************************************************************************)
(* runTransform after the fetch: the response and the stream's lines.      *)
(***************************************************************************)
(* changes.filter((x) => typeof x === "string").slice(0, 12) *)
StringsOf(changes) ==
  LET isString(x) == x.type = "string"
  IN  Slice(SelectSeq(changes, isString), 0, AnalysisCap)

(* setPreview((prev) => prev ? {...prev, status: "ready", next, changes} : prev) *)
JsonResult(prev, text, changes) ==
  IF prev = None THEN prev
  ELSE Some([prev[1] EXCEPT !.status = "ready", !.next = text,
                            !.changes = StringsOf(changes)])

(* A catch block that installs the error whether or not a preview is open. *)
FailedUnchecked(prev, message) ==
  IF prev = None
  THEN Some([start |-> 0, end |-> 0, mode |-> "polish", original |-> <<>>,
             status |-> "error", next |-> <<>>, changes |-> <<>>, error |-> message])
  ELSE Some([prev[1] EXCEPT !.status = "error", !.error = message])

(* catch: setPreview((prev) => prev ? {...prev, status: "error", error} : prev) *)
Failed(prev, message) ==
  IF prev = None THEN prev
  ELSE Some([prev[1] EXCEPT !.status = "error", !.error = message])

(* A handleLine that puts each delta in front of the text so far. *)
handleLinePrepending(prev, obj) ==
  IF prev = None THEN prev
  ELSE CASE obj.type = "text-delta" ->
              Some([prev[1] EXCEPT !.next = obj.delta \o prev[1].next])
         [] obj.type = "analysis" ->
              Some([prev[1] EXCEPT !.changes = StringsOf(obj.changes)])
         [] obj.type = "done" ->
              IF prev[1].status # "error"
              THEN Some([prev[1] EXCEPT !.status = "ready", !.next = Trim(prev[1].next)])
              ELSE prev
         [] OTHER -> prev

(* A handleLine that lets the span follow the streamed text. *)
handleLineMovingSpan(prev, obj) ==
  IF prev = None THEN prev
  ELSE CASE obj.type = "text-delta" ->
              Some([prev[1] EXCEPT !.next = prev[1].next \o obj.delta,
                                   !.end = prev[1].start + Len(prev[1].next \o obj.delta)])
         [] obj.type = "done" ->
              IF prev[1].status # "error"
              THEN Some([prev[1] EXCEPT !.status = "ready", !.next = Trim(prev[1].next)])
              ELSE prev
         [] OTHER -> prev

(* handleLine's effect on the preview, for a parsed line obj. *)
handleLine(prev, obj) ==
  IF prev = None THEN prev
  ELSE CASE obj.type = "text-delta" ->
              Some([prev[1] EXCEPT !.next = prev[1].next \o obj.delta])
         [] obj.type = "analysis" ->
              Some([prev[1] EXCEPT !.changes = StringsOf(obj.changes)])
         [] obj.type = "error" ->
              Some([prev[1] EXCEPT !.status = "error", !.error = obj.error])
         [] obj.type = "done" ->
              IF prev[1].status # "error"
              THEN Some([prev[1] EXCEPT !.status = "ready", !.next = Trim(prev[1].next)])
              ELSE prev
         [] OTHER -> prev

(* A state update of a runTransform call reaches the bar it was made by. *)
SetPreviewBy(r, value) == preview' = IF r.orphan THEN preview ELSE value

(* finally: setIsWorking(false); the call is over. *)
Finally(r) ==
  /\ isWorking' = IF r.orphan THEN isWorking ELSE FALSE
  /\ requests' = requests \ {r}

RequestFrame(r) ==
  /\ actor' = r.id
  /\ UNCHANGED <<instructionInput, previewOwner, nextReq, capturedDoc>>
  /\ UNCHANGED <<storeVars, persistVars, editorVars, nextId, now, edits, applyLog, treeLog>>

(* fetch rejects, the status is not ok, the JSON is not {ok, text}, or    *)
(* the body is missing: the catch block.                                   *)
ResponseFails(r, message) ==
  /\ r \in requests
  /\ r.pc = "fetch"
  /\ SetPreviewBy(r, Failed(preview, message))
  /\ Finally(r)
  /\ RequestFrame(r)

(* A single JSON response {ok: true, text, changes}. *)
ResponseJson(r, text, changes) ==
  /\ r \in requests
  /\ r.pc = "fetch"
  /\ SetPreviewBy(r, JsonResult(preview, text, changes))
  /\ Finally(r)
  /\ RequestFrame(r)

(* An application/x-ndjson response: the read loop starts. *)
ResponseStreams(r) ==
  /\ r \in requests
  /\ r.pc = "fetch"
  /\ requests' = (requests \ {r}) \cup {[r EXCEPT !.pc = "stream"]}
  /\ UNCHANGED <<preview, isWorking>>
  /\ RequestFrame(r)

(* One line of the stream; dropped counts (as history) the lines that    *)
(* found the preview of their own bar null, received is (as history) the  *)
(* payloads of the text-delta lines so far, in the order of arrival, and  *)
(* sawDone tells whether a done line has arrived.                          *)
StreamLine(r, obj, maxLines) ==
  /\ r \in requests
  /\ r.pc = "stream"
  /\ r.lines < maxLines
  /\ SetPreviewBy(r, handleLine(preview, obj))
  /\ requests' = (requests \ {r}) \cup
                  {[r EXCEPT !.lines = r.lines + 1,
                             !.dropped = IF preview = None /\ ~r.orphan
                                         THEN r.dropped + 1 ELSE r.dropped,
                             !.received = IF obj.type = "text-delta"
                                          THEN r.received \o obj.delta ELSE r.received,
                             !.sawDone = r.sawDone \/ obj.type = "done"]}
  /\ UNCHANGED isWorking
  /\ RequestFrame(r)

(* reader.read() returns done. *)
StreamEnds(r) ==
  /\ r \in requests
  /\ r.pc = "stream"
  /\ UNCHANGED preview
  /\ Finally(r)
  /\ RequestFrame(r)

(* reader.read() rejects: the catch block. *)
StreamFails(r, message) ==
  /\ r \in requests
  /\ r.pc = "stream"
  /\ SetPreviewBy(r, Failed(preview, message))
  /\ Finally(r)
  /\ RequestFrame(r)


(***************************************************************************)
(* The store's text replacements.                                          *)
(***************************************************************************)
FuzzyMinLen == 16

FuzzyMinTokens == 3

(* A second tier whose pattern runs on to the end of the content. *)
FuzzyMatchToEnd(content, find) ==
  IF Len(Trim(find)) >= FuzzyMinLen
  THEN IF Len(SplitWhitespace(Trim(find))) >= FuzzyMinTokens
       THEN IF RegexSearch(content, SplitWhitespace(Trim(find))) = None THEN None
            ELSE Some([from |-> RegexSearch(content, SplitWhitespace(Trim(find)))[1].from,
                       to   |-> Len(content)])
       ELSE None
  ELSE None

(* A second tier without the length threshold. *)
FuzzyMatchAnyLength(content, find) ==
  IF Len(SplitWhitespace(Trim(find))) >= FuzzyMinTokens
  THEN RegexSearch(content, SplitWhitespace(Trim(find)))
  ELSE None

(* Where findAndReplace's second tier matches: None or Some([from, to]). *)
FuzzyMatch(content, find) ==
  IF Len(Trim(find)) >= FuzzyMinLen
  THEN IF Len(SplitWhitespace(Trim(find))) >= FuzzyMinTokens
       THEN RegexSearch(content, SplitWhitespace(Trim(find)))
       ELSE None
  ELSE None

(* A findAndReplace that calls content.replace without testing for a match. *)
FindAndReplaceUntested(fs, active, find, replace) ==
  LET activeFile == getActiveFile(fs, active)
  IN  IF activeFile = None THEN None
      ELSE IF activeFile[1].type # "tex" THEN None
      ELSE IF find = <<>> THEN None
      ELSE IF Includes(activeFile[1].content, find)
           THEN Some(ReplaceFirst(activeFile[1].content, find, replace))
      ELSE Some(activeFile[1].content)

(* The newContent findAndReplace computes: None for null. *)
FindAndReplaceContent(fs, active, find, replace) ==
  LET activeFile == getActiveFile(fs, active)
  IN  IF activeFile = None THEN None
      ELSE IF activeFile[1].type # "tex" THEN None
      ELSE IF find = <<>> THEN None
      ELSE IF Includes(activeFile[1].content, find)
           THEN Some(ReplaceFirst(activeFile[1].content, find, replace))
      ELSE IF FuzzyMatch(activeFile[1].content, find) # None
           THEN Some(ReplaceRange(activeFile[1].content,
                                  FuzzyMatch(activeFile[1].content, find)[1].from,
                                  FuzzyMatch(activeFile[1].content, find)[1].to,
                                  replace))
      ELSE None

(* findAndReplace's set(): only the file's content changes. *)
findAndReplace(find, replace) ==
  /\ FindAndReplaceContent(files, activeFileId, find, replace) # None
  /\ files' = WithContent(files, getActiveFile(files, activeFileId)[1].id,
                          FindAndReplaceContent(files, activeFileId, find, replace)[1])
  /\ UNCHANGED <<activeFileId, cursorVars, saveVars, historyEntries, hydratedKey>>
  /\ PersistWrite

(* replaceSelection(start, end, text) *)
replaceSelection(start, end, text) ==
  LET activeFile == getActiveFile(files, activeFileId)
  IN  IF activeFile # None /\ activeFile[1].type = "tex"
      THEN /\ files' = WithContent(files, activeFile[1].id,
                                   ReplaceRange(activeFile[1].content, start, end, text))
           /\ cursorPosition' = start + Len(text)
           /\ UNCHANGED <<activeFileId, selectionRange, saveVars, historyEntries,
                          hydratedKey>>
           /\ PersistWrite
      ELSE UNCHANGED <<storeVars, storage>>

(* insertAtCursor(text) *)
insertAtCursor(text, maxEdits) ==
  LET activeFile == getActiveFile(files, activeFileId)
  IN  /\ activeFile # None
      /\ activeFile[1].type = "tex"
      /\ edits < maxEdits
      /\ edits' = edits + 1
      /\ files' = WithContent(files, activeFile[1].id,
                              ReplaceRange(activeFile[1].content, cursorPosition,
                                           cursorPosition, text))
      /\ cursorPosition' = cursorPosition + Len(text)
      /\ UNCHANGED <<activeFileId, selectionRange, saveVars, historyEntries, hydratedKey>>
      /\ PersistWrite
      /\ UNCHANGED <<persistFrame, editorVars, barVars, nextId, now, applyLog, treeLog>>
      /\ UserStep

(***************************************************************************)
(* SelectionOptimizeBar: applyPreview.                                     *)
(***************************************************************************)
WindowRadius == 2000

findNearestRange(source, needle, start) ==
  LET windowStart == Max(0, start - WindowRadius)
      windowEnd   == Min(Len(source), start + WindowRadius)
      localIndex  == IndexOf(Slice(source, windowStart, windowEnd), needle)
      globalIndex == IndexOf(source, needle)
  IN  IF needle = <<>> THEN None
      ELSE IF localIndex # -1
           THEN Some([from |-> windowStart + localIndex,
                      to   |-> windowStart + localIndex + Len(needle)])
      ELSE IF globalIndex # -1
           THEN Some([from |-> globalIndex, to |-> globalIndex + Len(needle)])
      ELSE None

(* Which tier of findAndReplace replaces, and where. *)
FallbackTier(content, find) == IF Includes(content, find) THEN "literal" ELSE "fuzzy"

FallbackFrom(content, find) ==
  IF Includes(content, find) THEN IndexOf(content, find)
  ELSE IF FuzzyMatch(content, find) # None THEN FuzzyMatch(content, find)[1].from
  ELSE -1

(* The apply without setPreview(null) and setInstructionInput(""). *)
AppliedKeepingPreview(tier, from) ==
  /\ applyLog' = [outcome |-> "applied", tier |-> tier, from |-> from,
                  flip |-> ~applyLog.flip]
  /\ UNCHANGED <<barVars, treeLog>>

Applied(tier, from) ==
  /\ preview' = None
  /\ instructionInput' = <<>>
  /\ applyLog' = [outcome |-> "applied", tier |-> tier, from |-> from,
                  flip |-> ~applyLog.flip]
  /\ UNCHANGED <<isWorking, requests, previewOwner, nextReq, capturedDoc, treeLog>>

(* if (!preview) return; if (preview.status !== "ready") return; *)
ApplyIgnored ==
  /\ applyLog' = [applyLog EXCEPT !.outcome = "ignored"]
  /\ UNCHANGED <<storeVars, storage, editorVars, barVars, treeLog>>

NotApplied(outcome) ==
  /\ applyLog' = [outcome |-> outcome, tier |-> "none", from |-> -1,
                  flip |-> ~applyLog.flip]
  /\ UNCHANGED <<barVars, treeLog>>

applyPreview ==
  /\ BarMounted
  /\ IF preview = None \/ preview[1].status # "ready"
     THEN ApplyIgnored
     ELSE
     LET start    == preview[1].start
         end      == preview[1].end
         original == preview[1].original
         next     == preview[1].next
         nearest  == findNearestRange(CurrentDoc, original, start)
     IN  IF Slice(CurrentDoc, start, end) = original
         THEN IF ViewAttached
              THEN IF ValidChange(start, end)
                   THEN /\ ViewTransaction(start, end, next, start + Len(next))
                        /\ Applied("exact", start)
                   ELSE /\ UNCHANGED <<storeVars, storage, editorVars>>
                        /\ NotApplied("threw")
              ELSE /\ replaceSelection(start, end, next)
                   /\ UNCHANGED editorVars
                   /\ Applied("exact", start)
         ELSE IF nearest # None /\ ViewAttached
              THEN /\ ViewTransaction(nearest[1].from, nearest[1].to, next,
                                      nearest[1].from + Len(next))
                   /\ Applied("nearest", nearest[1].from)
         ELSE IF FindAndReplaceContent(files, activeFileId, original, next) # None
              THEN /\ findAndReplace(original, next)
                   /\ UNCHANGED editorVars
                   /\ Applied(FallbackTier(CurrentDoc, original),
                              FallbackFrom(CurrentDoc, original))
              ELSE /\ UNCHANGED <<storeVars, storage, editorVars>>
                   /\ NotApplied("conflict")
  /\ UNCHANGED <<persistFrame, nextId, now, edits>>
  /\ UserStep


(***************************************************************************)
(* The workspace: which center view is rendered.                           *)
(***************************************************************************)
(* setCenterView: LatexEditor is rendered unless the view is "chat".  A   *)
(* new LatexEditor instance starts with saveDebounceRef.current = null;   *)
(* the timers an unmounted instance had set stay pending.                  *)
setCenterView(toEditor) ==
  /\ editorMounted # toEditor
  /\ editorMounted' = toEditor
  /\ saveDebounceRef' = None
  /\ UNCHANGED <<timers, lastEditAt>>
  /\ UNCHANGED <<storeVars, persistVars, nextId, now, edits, applyLog, treeLog>>
  /\ BarRender
  /\ UserStep

(* buildDefaultFiles(), with content for DEFAULT_TEX_CONTENT *)
buildDefaultFiles(content) ==
  <<[id |-> 0, name |-> "document.tex", type |-> "tex", parentId |-> NoId,
     content |-> content]>>

(* createDefaultDocumentState() *)
createDefaultDocumentState(content) ==
  /\ files = buildDefaultFiles(content)
  /\ activeFileId = 0
  /\ cursorPosition = 0
  /\ selectionRange = None
  /\ isSaving = FALSE
  /\ hasUnsavedChanges = FALSE
  /\ lastSavedAt = NoTime
  /\ historyEntries = <<>>
  /\ hydratedKey = None

(***************************************************************************)
(* Saving: the keyboard shortcut, the debounce timer, the clock.           *)
(***************************************************************************)
(* Ctrl/Cmd+S (useKeyboardShortcuts, and the editor's Mod-s key binding). *)
SaveShortcut ==
  /\ markSaved
  /\ UNCHANGED <<files, activeFileId, cursorVars, historyEntries, hydratedKey>>
  /\ PersistWrite
  /\ UNCHANGED <<persistFrame, editorVars, barVars, nextId, now, edits, applyLog, treeLog>>
  /\ UserStep

(* A pending setTimeout callback runs once its delay has passed: markSaved(). *)
TimerFire(due) ==
  /\ due \in timers
  /\ due <= now
  /\ timers' = timers \ {due}
  /\ markSaved
  /\ UNCHANGED <<files, activeFileId, cursorVars, historyEntries, hydratedKey>>
  /\ PersistWrite
  /\ UNCHANGED <<persistFrame, editorMounted, saveDebounceRef, lastEditAt, barVars,
                 nextId, now, edits, applyLog, treeLog>>
  /\ UserStep

(* Time passes. *)
Tick(ms, maxTime) ==
  /\ now + ms <= maxTime
  /\ now' = now + ms
  /\ UNCHANGED <<storeVars, persistVars, editorVars, barVars, nextId, edits, applyLog, treeLog>>
  /\ UserStep

(***************************************************************************)
(* Switching the project: the document hydration effect of WorkspaceLayout.*)
(***************************************************************************)
LegacyKey == "open-prism-document:user"

DefaultTexContent == <<"d">>

(* resetProject(): set({...createDefaultDocumentState()}) *)
resetProject ==
  /\ files' = buildDefaultFiles(DefaultTexContent)
  /\ activeFileId' = 0
  /\ cursorPosition' = 0
  /\ selectionRange' = None
  /\ isSaving' = FALSE
  /\ hasUnsavedChanges' = FALSE
  /\ lastSavedAt' = NoTime
  /\ historyEntries' = <<>>
  /\ hydratedKey' = None

(* The persist options' merge: the persisted fields over the current     *)
(* state, then activeFileId is the file named document.tex, else the     *)
(* first file.                                                             *)
merge(persisted) ==
  LET mergedFiles == IF persisted = None THEN files ELSE persisted[1].files
      docTex      == {i \in 1..Len(mergedFiles) : mergedFiles[i].name = "document.tex"}
  IN  /\ files' = mergedFiles
      /\ activeFileId' =
           IF docTex # {} THEN mergedFiles[MinOf(docTex)].id
           ELSE IF Len(mergedFiles) > 0 THEN mergedFiles[1].id
           ELSE IF persisted = None THEN activeFileId
           ELSE persisted[1].activeFileId
      /\ historyEntries' = IF persisted = None THEN historyEntries
                           ELSE persisted[1].historyEntries
      /\ lastSavedAt' = IF persisted = None THEN lastSavedAt
                        ELSE persisted[1].lastSavedAt
      /\ UNCHANGED <<cursorVars, isSaving, hasUnsavedChanges, hydratedKey>>

(* setActiveProject(id) and the effect it triggers, up to the first await: *)
(* persist.setOptions({name: documentKey}) unless the key is hydrated.     *)
setActiveProject(id, maxHydrations) ==
  /\ Cardinality(hydration) < maxHydrations
  /\ activeProjectId # Some(id)
  /\ activeProjectId' = Some(id)
  /\ IF hydratedKey = Some(id)
     THEN UNCHANGED <<persistName, hydration>>
     ELSE /\ persistName' = id
          /\ hydration' = hydration \cup {[key |-> id, pc |-> "hasDocument", data |-> None]}
  /\ UNCHANGED <<storeVars, storage, editorVars, barVars, nextId, now, edits, applyLog, treeLog>>
  /\ UserStep

Advance(h, pc, data) ==
  hydration' = (hydration \ {h}) \cup {[h EXCEPT !.pc = pc, !.data = data]}

hydrationFrame == <<persistName, activeProjectId, nextId, now, edits, applyLog, treeLog>>

(* const hasDocument = (await getItem(documentKey)) != null *)
HydrationHasDocument(h) ==
  /\ h \in hydration
  /\ h.pc = "hasDocument"
  /\ Advance(h, IF storage[h.key] # None THEN "hasCurrent" ELSE "legacyGet", None)
  /\ UNCHANGED <<storeVars, storage, editorVars, barVars, hydrationFrame>>
  /\ UserStep

(* const legacyData = await getItem(legacyKey) *)
HydrationLegacyGet(h) ==
  /\ h \in hydration
  /\ h.pc = "legacyGet"
  /\ Advance(h, IF storage[LegacyKey] # None THEN "legacySet" ELSE "hasCurrent",
             storage[LegacyKey])
  /\ UNCHANGED <<storeVars, storage, editorVars, barVars, hydrationFrame>>
  /\ UserStep

(* await setItem(documentKey, legacyData) *)
HydrationLegacySet(h) ==
  /\ h \in hydration
  /\ h.pc = "legacySet"
  /\ storage' = [storage EXCEPT ![h.key] = h.data]
  /\ Advance(h, "legacyRemove", None)
  /\ UNCHANGED <<storeVars, editorVars, barVars, hydrationFrame>>
  /\ UserStep

(* await removeItem(legacyKey) *)
HydrationLegacyRemove(h) ==
  /\ h \in hydration
  /\ h.pc = "legacyRemove"
  /\ storage' = [storage EXCEPT ![LegacyKey] = None]
  /\ Advance(h, "hasCurrent", None)
  /\ UNCHANGED <<storeVars, editorVars, barVars, hydrationFrame>>
  /\ UserStep

(* hasCurrent; if (!hasCurrent) resetProject(); rehydrate() reads the     *)
(* item stored under options.name.                                         *)
HydrationHasCurrent(h) ==
  /\ h \in hydration
  /\ h.pc = "hasCurrent"
  /\ UNCHANGED <<editorVars, hydrationFrame>>
  /\ IF storage[h.key] # None
     THEN /\ UNCHANGED <<storeVars, storage>>
          /\ UNCHANGED barVars
     ELSE /\ resetProject
          /\ PersistWrite
          /\ BarRender
  /\ Advance(h, "merge", storage'[persistName])
  /\ UserStep

(* rehydrate(): merge the item that was read, set it, store it. *)
HydrationMerge(h) ==
  /\ h \in hydration
  /\ h.pc = "merge"
  /\ UNCHANGED <<editorVars, hydrationFrame>>
  /\ merge(h.data)
  /\ PersistWrite
  /\ BarRender
  /\ Advance(h, "setHydratedKey", None)
  /\ UserStep

(* setHydratedKey(documentKey) *)
HydrationSetHydratedKey(h) ==
  /\ h \in hydration
  /\ h.pc = "setHydratedKey"
  /\ hydratedKey' = Some(h.key)
  /\ UNCHANGED <<files, activeFileId, cursorVars, saveVars, historyEntries>>
  /\ PersistWrite
  /\ hydration' = hydration \ {h}
  /\ UNCHANGED <<editorVars, barVars, hydrationFrame>>
  /\ UserStep

(***************************************************************************)
(* States the program starts from.                                         *)
(***************************************************************************)
DefaultKey == "open-prism-document"

ProjectKeys == {"project-a", "project-b"}

StorageKeys == {DefaultKey, LegacyKey} \cup ProjectKeys

(* Nothing persisted, no project open. *)
InitPersist ==
  /\ persistName = DefaultKey
  /\ storage = [k \in StorageKeys |-> None]
  /\ activeProjectId = None
  /\ hydration = {}

(* A mounted editor with an idle bar. *)
InitEditor ==
  /\ editorMounted = TRUE
  /\ timers = {}
  /\ saveDebounceRef = None
  /\ lastEditAt = NoTime
  /\ preview = None
  /\ isWorking = FALSE
  /\ instructionInput = <<>>
  /\ requests = {}
  /\ previewOwner = NoReq
  /\ capturedDoc = <<>>
  /\ nextReq = 0
  /\ nextId = 1
  /\ edits = 0
  /\ now = 0
  /\ actor = NoReq
  /\ applyLog = NoApply
  /\ treeLog = NoTreeCall

InitRest == InitPersist /\ InitEditor

(***************************************************************************)
(* SpecApply: select, transform, edit in between, apply.                   *)
(***************************************************************************)
DocSpec == <<"A", " ", "B", " ", "C", " ", "D">>

DocTwice == <<"B", " ", "C", " ", "B", " ", "C">>

DocLong == <<"a", "a", "a", "a", "a", " ", "b", "b", "b", "b", "b", " ",
             "c", "c", "c", "c", ".">>

ApplyDocs == {DocSpec, DocTwice, DocLong}

ApplySelections == {<<2, 5>>, <<4, 7>>, <<0, 16>>}

ApplyEdits == {[from |-> 0, to |-> 0, insert |-> <<"Z", " ">>],
               [from |-> 5, to |-> 6, insert |-> <<" ", " ">>],
               [from |-> 2, to |-> 3, insert |-> <<"Q">>]}

ApplyReplacements == {<<"X", " ", "Y">>, <<"$", "&">>}

MaxEditsApply == 1

MaxReqsApply == 2

(* The history holds an entry of a file that was deleted after the entry *)
(* was saved: addFile, saveHistoryEntry, deleteFile lead here.            *)
InitApply ==
  /\ \E doc \in ApplyDocs :
       /\ files = buildDefaultFiles(doc)
       /\ historyEntries = <<[id |-> 2, fileId |-> 1, createdAt |-> 0, content |-> <<>>]>>
  /\ activeFileId = 0
  /\ cursorPosition = 0
  /\ selectionRange = None
  /\ isSaving = FALSE
  /\ hasUnsavedChanges = FALSE
  /\ lastSavedAt = NoTime
  /\ hydratedKey = None
  /\ persistName = DefaultKey
  /\ storage = [k \in StorageKeys |-> None]
  /\ activeProjectId = None
  /\ hydration = {}
  /\ editorMounted = TRUE
  /\ timers = {}
  /\ saveDebounceRef = None
  /\ lastEditAt = NoTime
  /\ preview = None
  /\ isWorking = FALSE
  /\ instructionInput = <<>>
  /\ requests = {}
  /\ previewOwner = NoReq
  /\ capturedDoc = <<>>
  /\ nextReq = 0
  /\ nextId = 3
  /\ edits = 0
  /\ now = 0
  /\ actor = NoReq
  /\ applyLog = NoApply
  /\ treeLog = NoTreeCall

NextApply ==
  \/ \E e \in ApplyEdits : TypeInEditor(e.from, e.to, e.insert, MaxEditsApply)
  \/ \E sel \in ApplySelections : SelectInEditor(sel[1], sel[2])
  \/ TransformSelection("polish", MaxReqsApply)
  \/ \E r \in requests, text \in ApplyReplacements : ResponseJson(r, text, <<>>)
  \/ restoreHistoryEntry(1)
  \/ setActiveFile(0)
  \/ applyPreview

SpecApply == InitApply /\ [][NextApply]_vars


(***************************************************************************)
(* Properties of applyPreview, checked under SpecApply.                    *)
(***************************************************************************)
(* A step of applyPreview that got past its two early returns. *)
ApplyStep == applyLog'.flip # applyLog.flip

(* The buffer the bar reads, after the step. *)
NextDoc == ContentOf(files', activeFileId')

(* The buffer is the captured one with k characters inserted at or before *)
(* the captured span.                                                      *)
PrefixInserted(k) ==
  /\ k >= 1
  /\ Len(CurrentDoc) = Len(capturedDoc) + k
  /\ \E p \in 0..preview[1].start :
       /\ Slice(CurrentDoc, 0, p) = Slice(capturedDoc, 0, p)
       /\ SliceFrom(CurrentDoc, p + k) = SliceFrom(capturedDoc, p)

(* The spans of the buffer that are the tokens separated by whitespace runs. *)
WhitespaceVariants(doc, tokens) ==
  {ft \in (0..Len(doc)) \X (0..Len(doc)) :
     /\ ft[1] < ft[2]
     /\ SplitWhitespace(Slice(doc, ft[1], ft[2])) = tokens}

FirstVariant(doc, tokens) ==
  CHOOSE ft \in WhitespaceVariants(doc, tokens) :
    \A other \in WhitespaceVariants(doc, tokens) : ft[1] <= other[1]

(* The text qualifies for the second tier of findAndReplace. *)
FuzzyEligible(text) ==
  /\ Len(Trim(text)) >= 16
  /\ Len(SplitWhitespace(Trim(text))) >= 3

(* C1: applying a ready preview whose span still holds the original text  *)
(* turns the buffer into content[:start] + replacement + content[end:]    *)
(* and puts the cursor at start + len(replacement), with the editor view  *)
(* attached or not.                                                        *)
C1_ExactPositionApply ==
  [][(ApplyStep /\ Slice(CurrentDoc, preview[1].start, preview[1].end)
                     = preview[1].original)
     => /\ NextDoc = Slice(CurrentDoc, 0, preview[1].start) \o preview[1].next
                       \o SliceFrom(CurrentDoc, preview[1].end)
        /\ cursorPosition' = preview[1].start + Len(preview[1].next)]_vars

(* C2: if the only change since the capture is an insertion of k          *)
(* characters before the span (k at most 2000), apply replaces exactly    *)
(* the shifted span [start+k, end+k) by the replacement.                  *)
C2_ShiftedSpanApply ==
  [][(/\ ApplyStep
      /\ Len(CurrentDoc) - Len(capturedDoc) <= WindowRadius
      /\ PrefixInserted(Len(CurrentDoc) - Len(capturedDoc)))
     => NextDoc = Slice(CurrentDoc, 0,
                        preview[1].start + Len(CurrentDoc) - Len(capturedDoc))
                    \o preview[1].next
                    \o SliceFrom(CurrentDoc,
                                 preview[1].end + Len(CurrentDoc) - Len(capturedDoc))]_vars

(* C3: when the original text is neither at its span nor anywhere in the  *)
(* buffer, literally or as a whitespace variant, apply reports a conflict *)
(* and the files, the cursor and the ready preview stay as they were.     *)
C3_ConflictLeavesAllUntouched ==
  [][(/\ ApplyStep
      /\ Slice(CurrentDoc, preview[1].start, preview[1].end) # preview[1].original
      /\ ~Includes(CurrentDoc, preview[1].original)
      /\ \/ ~FuzzyEligible(preview[1].original)
         \/ WhitespaceVariants(CurrentDoc, SplitWhitespace(Trim(preview[1].original))) = {})
     => /\ applyLog'.outcome = "conflict"
        /\ files' = files
        /\ cursorPosition' = cursorPosition
        /\ preview' = preview
        /\ preview'[1].status = "ready"]_vars

(* C3 witness: a conflict on a text long enough for every tier to be tried. *)
C3_Witness ==
  /\ applyLog.outcome = "conflict"
  /\ preview # None
  /\ preview[1].status = "ready"
  /\ FuzzyEligible(preview[1].original)
  /\ edits > 0

(* C4: when the original text occurs nowhere literally, has at least 16   *)
(* characters and 3 tokens after trimming, and the buffer holds the       *)
(* tokens in order separated by whitespace runs, apply replaces the first *)
(* such occurrence by the replacement verbatim and nothing else.          *)
C4_FuzzyFallback ==
  [][(/\ ApplyStep
      /\ ~Includes(CurrentDoc, preview[1].original)
      /\ FuzzyEligible(preview[1].original)
      /\ WhitespaceVariants(CurrentDoc, SplitWhitespace(Trim(preview[1].original))) # {})
     => /\ applyLog'.outcome = "applied"
        /\ NextDoc =
             Slice(CurrentDoc, 0,
                   FirstVariant(CurrentDoc, SplitWhitespace(Trim(preview[1].original)))[1])
             \o preview[1].next
             \o SliceFrom(CurrentDoc,
                   FirstVariant(CurrentDoc, SplitWhitespace(Trim(preview[1].original)))[2])]_vars

(* C4 witness: the second tier replaced a whitespace variant by "$&",     *)
(* which is in the buffer verbatim, and the text after the span is kept.  *)
C4_Witness ==
  /\ applyLog.outcome = "applied"
  /\ applyLog.tier = "fuzzy"
  /\ Includes(CurrentDoc, <<"$", "&", ".">>)

(* C5: after every successful apply the cursor is at the start of the     *)
(* replaced span plus len(replacement), and the preview is null.          *)
C5_CursorAfterApply ==
  [][(ApplyStep /\ applyLog'.outcome = "applied")
     => /\ cursorPosition' = applyLog'.from + Len(preview[1].next)
        /\ preview' = None]_vars


(* A call of applyPreview. *)
ApplyCall == applyLog' # applyLog

(* C18: an apply succeeds only on a ready preview and removes it; a call  *)
(* of apply made when the preview is gone changes no file, not the cursor *)
(* and brings no preview back.                                             *)
C18_AppliedAtMostOnce ==
  /\ [][(ApplyStep /\ applyLog'.outcome = "applied")
        => /\ preview # None
           /\ preview[1].status = "ready"
           /\ preview' = None]_vars
  /\ [][(ApplyCall /\ preview = None)
        => /\ UNCHANGED <<files, cursorPosition>>
           /\ preview' = None]_vars

(* C18: apply was called again after the only preview there was had been  *)
(* applied.                                                                *)
C18_Witness ==
  /\ applyLog.outcome = "ignored"
  /\ applyLog.tier # "none"
  /\ preview = None
  /\ nextReq = 1

(***************************************************************************)
(* SpecBar: transform requests, their streams, dismissal and unmounting.   *)
(***************************************************************************)
(* A text one character longer than the ceiling. *)
LongText == [i \in 1..(MaxSourceLen + 1) |-> "x"]

BarSelections == {<<2, 5>>, <<1, 2>>}

BarTexts == {<<"X">>, LongText}

BarChanges == <<[type |-> "string", value |-> "c"], [type |-> "number", value |-> "1"]>>

StreamObjs ==
  {[type |-> "meta"], [type |-> "done"],
   [type |-> "analysis", changes |-> BarChanges],
   [type |-> "error", error |-> <<"e">>]}
  \cup {[type |-> "text-delta", delta |-> t] : t \in BarTexts}

MaxReqsBar == 2

MaxLinesBar == 2

InitBar ==
  /\ createDefaultDocumentState(DocSpec)
  /\ InitRest

NextBar ==
  \/ \E sel \in BarSelections : SelectInEditor(sel[1], sel[2])
  \/ TransformSelection("polish", MaxReqsBar)
  \/ Regenerate("polish", MaxReqsBar)
  \/ ContinueEditing("polish", MaxReqsBar)
  \/ setInstructionInput(<<"i">>)
  \/ \E byDialog \in BOOLEAN : DismissPreview(byDialog)
  \/ \E toEditor \in BOOLEAN : setCenterView(toEditor)
  \/ \E r \in requests : ResponseFails(r, <<"f">>)
  \/ \E r \in requests, text \in BarTexts : ResponseJson(r, text, BarChanges)
  \/ \E r \in requests : ResponseStreams(r)
  \/ \E r \in requests, obj \in StreamObjs : StreamLine(r, obj, MaxLinesBar)
  \/ \E r \in requests : StreamEnds(r)
  \/ \E r \in requests : StreamFails(r, <<"f">>)

SpecBar == InitBar /\ [][NextBar]_vars

(* C6: a request is only in flight if the text it sends is non-empty      *)
(* after trimming and at most 4000 characters long, whichever button      *)
(* started it (toolbar, regenerate, continue-editing).                     *)
C6_RequestValidation ==
  \A r \in requests : Trim(r.text) # <<>> /\ Len(r.text) <= 4000

(* C7: a step of a request that did not install the current preview      *)
(* (an earlier, superseded or orphaned request) leaves that preview as it *)
(* is.                                                                     *)
C7_StaleEventsDiscarded ==
  [][(actor' # NoReq /\ preview # None /\ actor' # previewOwner)
     => preview' = preview]_vars

(* C7 witness: an earlier request took a step while a newer request's     *)
(* preview was installed.                                                  *)
C7_Witness ==
  /\ actor # NoReq
  /\ preview # None
  /\ previewOwner # NoReq
  /\ actor < previewOwner
  /\ \E r \in requests : r.id = actor /\ r.lines >= 1

(* C8: once the preview is null, every step of a request (a line of the   *)
(* stream, its end, a transport failure) leaves it null and leaves the    *)
(* files, the cursor and the selection unchanged.                          *)
C8_CancellationTolerated ==
  [][(actor' # NoReq /\ preview = None)
     => /\ preview' = None
        /\ UNCHANGED <<files, cursorPosition, selectionRange>>]_vars

(* C8 witness: after the dismissal two lines of the still streaming       *)
(* request were handled by its mounted bar.                                *)
C8_Witness ==
  /\ preview = None
  /\ actor # NoReq
  /\ actor = previewOwner
  /\ \E r \in requests : r.id = actor /\ ~r.orphan /\ r.dropped = 2


(***************************************************************************)
(* SpecSwitch: the user switches the project while the editor is in use.   *)
(***************************************************************************)
DocA == <<"a">>

DocB == <<"b">>

DocLegacy == <<"l">>

(* What the store persists for a project whose document.tex holds doc. *)
ProjectState(doc) == Partialize(buildDefaultFiles(doc), 0, <<>>, NoTime)

MaxEditsSwitch == 1

MaxTimeSwitch == 800

MaxHydrations == 1

(* Project a is open and hydrated; project b and the legacy key may hold *)
(* a document of their own.                                                *)
InitSwitch ==
  /\ files = buildDefaultFiles(DocA)
  /\ activeFileId = 0
  /\ cursorPosition = 0
  /\ selectionRange = None
  /\ isSaving = FALSE
  /\ hasUnsavedChanges = FALSE
  /\ lastSavedAt = NoTime
  /\ historyEntries = <<>>
  /\ hydratedKey = Some("project-a")
  /\ persistName = "project-a"
  /\ activeProjectId = Some("project-a")
  /\ hydration = {}
  /\ \E b \in {None, Some(ProjectState(DocB))},
        l \in {None, Some(ProjectState(DocLegacy))} :
       storage = [k \in StorageKeys |->
                    IF k = "project-a" THEN Some(ProjectState(DocA))
                    ELSE IF k = "project-b" THEN b
                    ELSE IF k = LegacyKey THEN l
                    ELSE None]
  /\ InitEditor

NextSwitch ==
  \/ \E id \in ProjectKeys : setActiveProject(id, MaxHydrations)
  \/ \E h \in hydration : HydrationHasDocument(h)
  \/ \E h \in hydration : HydrationLegacyGet(h)
  \/ \E h \in hydration : HydrationLegacySet(h)
  \/ \E h \in hydration : HydrationLegacyRemove(h)
  \/ \E h \in hydration : HydrationHasCurrent(h)
  \/ \E h \in hydration : HydrationMerge(h)
  \/ \E h \in hydration : HydrationSetHydratedKey(h)
  \/ TypeInEditor(0, 0, <<"x">>, MaxEditsSwitch)
  \/ SelectInEditor(0, 1)
  \/ \E due \in timers : TimerFire(due)
  \/ Tick(SaveDebounceMs, MaxTimeSwitch)

SpecSwitch == InitSwitch /\ [][NextSwitch]_vars

(* The text that marks the documents of the other project. *)
ForeignMark(key) == IF key = "project-a" THEN <<"b">> ELSE <<"a">>

(* C9: nothing of another project is ever stored under a project's key:   *)
(* no file stored under project-b holds project a's text, and conversely. *)
C9_SwitchIsAtomic ==
  \A key \in ProjectKeys :
    storage[key] # None =>
      \A i \in 1..Len(storage[key][1].files) :
        ~Includes(storage[key][1].files[i].content, ForeignMark(key))

(***************************************************************************)
(* SpecSave: edits, the debounce timers, the save shortcut, the center     *)
(* view.                                                                   *)
(***************************************************************************)
TickMs == 400

MaxTimeSave == 1600

MaxEditsSave == 3

InitSave ==
  /\ createDefaultDocumentState(DocSpec)
  /\ InitRest

NextSave ==
  \/ TypeInEditor(0, 0, <<"x">>, MaxEditsSave)
  \/ Tick(TickMs, MaxTimeSave)
  \/ \E due \in timers : TimerFire(due)
  \/ SaveShortcut
  \/ \E toEditor \in BOOLEAN : setCenterView(toEditor)

SpecSave == InitSave /\ [][NextSave]_vars

(* A step in which a pending timer ran. *)
TimerStep == timers' # timers /\ timers' \subseteq timers

(* C10: the debounce timer flips the state to saved (dirty = false,       *)
(* indicator off, lastSavedAt updated) only when a full 800 ms have       *)
(* passed since the last edit.                                             *)
C10_TrailingEdgeDebounce ==
  [][(TimerStep /\ hasUnsavedChanges /\ ~hasUnsavedChanges')
     => now - lastEditAt >= 800]_vars


(***************************************************************************)
(* SpecTree: the file tree under the store's file actions, called with     *)
(* any arguments.                                                          *)
(***************************************************************************)
MaxIdsTree == 3

MaxRenames == 1

Renamed == {i \in 1..Len(files) : files[i].name = "r"}

(* The ids generateId() has returned so far, and "default-tex". *)
KnownIds == 0..(nextId - 1)

TreeParents == {NoId} \cup KnownIds

TreeFiles ==
  {[name |-> "a.tex", type |-> "tex", parentId |-> p, content |-> <<>>] :
     p \in TreeParents}

InitTree ==
  /\ createDefaultDocumentState(<<>>)
  /\ InitRest

NextTree ==
  \/ \E file \in TreeFiles : addFile(file, MaxIdsTree)
  \/ \E p \in TreeParents : addFolder("", p, MaxIdsTree)
  \/ \E id \in KnownIds : Cardinality(Renamed) < MaxRenames /\ renameFile(id, "r")
  \/ \E id \in KnownIds, p \in TreeParents : moveFile(id, p)
  \/ \E id \in KnownIds : deleteFile(id)

SpecTree == InitTree /\ [][NextTree]_vars

(* A call of a file-tree action (one that repeats the previous call and  *)
(* changes nothing is not told apart).                                     *)
TreeStep == treeLog' # treeLog

NodeIds(fs) == {fs[i].id : i \in 1..Len(fs)}

FolderIds(fs) == {fs[i].id : i \in {j \in 1..Len(fs) : fs[j].type = "folder"}}

(* The ids that have a node of ids as their parent, any number of levels down. *)
RECURSIVE Below(_, _)
Below(fs, ids) ==
  LET more == {fs[i].id : i \in {j \in 1..Len(fs) : fs[j].parentId \in ids}}
  IN  IF more \subseteq ids THEN ids ELSE Below(fs, ids \cup more)

(* The transitive descendants of id. *)
Descendants(fs, id) ==
  Below(fs, {fs[i].id : i \in {j \in 1..Len(fs) : fs[j].parentId = id}})

(* C11: every node whose parentId is not null has the id of an existing   *)
(* folder as its parentId.                                                 *)
C11_ParentValidity ==
  \A i \in 1..Len(files) :
    files[i].parentId # NoId => files[i].parentId \in FolderIds(files)

(* C12: a deleteFile call on a folder that is not rejected removes the    *)
(* folder and its transitive descendants and nothing else, and leaves no  *)
(* node whose parentId is a removed id.                                    *)
C12_CascadingDelete ==
  [][(/\ TreeStep
      /\ treeLog'.op = "deleteFile"
      /\ ~treeLog'.ignored
      /\ treeLog'.id \in FolderIds(files))
     => LET removed == NodeIds(files) \ NodeIds(files')
        IN  /\ removed = {treeLog'.id} \cup Descendants(files, treeLog'.id)
            /\ \A i \in 1..Len(files') : files'[i].parentId \notin removed]_vars

HasNonFolder(fs) == \E i \in 1..Len(fs) : fs[i].type # "folder"

(* Deleting id would take every node that is not a folder. *)
LeavesNoFile(fs, id) ==
  \A i \in 1..Len(fs) : fs[i].type # "folder" => fs[i].id \in IdsToDelete(fs, id)

(* A deleteFile call on an existing node. *)
DeleteStep ==
  /\ TreeStep
  /\ treeLog'.op = "deleteFile"
  /\ treeLog'.id \in NodeIds(files)

(* C13: a node that is not a folder exists in every reachable state; a    *)
(* deleteFile call that would leave none is ignored and leaves files and  *)
(* activeFileId as they were.                                              *)
C13_NonFolderAlwaysExists ==
  /\ [](HasNonFolder(files))
  /\ [][(DeleteStep /\ LeavesNoFile(files, treeLog'.id))
        => /\ treeLog'.ignored
           /\ UNCHANGED <<files, activeFileId>>]_vars

(* C13: a deleteFile call on a folder that holds every file was ignored;  *)
(* other nodes exist besides.                                              *)
C13_Witness ==
  /\ treeLog.op = "deleteFile"
  /\ treeLog.ignored
  /\ treeLog.id \in FolderIds(files)
  /\ Cardinality(FolderIds(files)) >= 2
  /\ HasNonFolder(files)

(* The ids reached from ids by following parentId links upwards. *)
RECURSIVE Above(_, _)
Above(fs, ids) ==
  LET more == {fs[i].parentId : i \in {j \in 1..Len(fs) : fs[j].id \in ids}} \ {NoId}
  IN  IF more \subseteq ids THEN ids ELSE Above(fs, ids \cup more)

(* The ancestors of the node fs[i]. *)
Ancestors(fs, i) ==
  IF fs[i].parentId = NoId THEN {} ELSE Above(fs, {fs[i].parentId})

(* C14: no node is its own ancestor (as it would be if following the      *)
(* parentId links from it never reached a root).                           *)
C14_CycleFreedom ==
  \A i \in 1..Len(files) : files[i].id \notin Ancestors(files, i)


(***************************************************************************)
(* SpecCap: more snapshots than the history holds.                         *)
(***************************************************************************)
MaxIdsCap == 53

MaxFilesCap == 2

InitCap ==
  /\ createDefaultDocumentState(<<>>)
  /\ InitRest

NextCap ==
  \/ saveHistoryEntry(MaxIdsCap)
  \/ /\ Len(files) < MaxFilesCap
     /\ addFile([name |-> "a.tex", type |-> "tex", parentId |-> NoId,
                 content |-> <<"n">>], MaxIdsCap)

SpecCap == InitCap /\ [][NextCap]_vars

(* The ids of the snapshots created so far: the ids generateId() has      *)
(* returned that were not given to a file.                                 *)
SnapshotIds == (1..(nextId - 1)) \ NodeIds(files)

(* The n largest members of S. *)
Newest(S, n) == {x \in S : Cardinality({y \in S : y > x}) < n}

(* C15: historyEntries never holds more than 50 entries; they are the 50  *)
(* most recently created snapshots, newest first, each as it was created.  *)
C15_HistoryCap ==
  /\ [](/\ Len(historyEntries) <= 50
        /\ \A i \in 1..Len(historyEntries) - 1 :
             historyEntries[i].id > historyEntries[i + 1].id
        /\ {historyEntries[i].id : i \in 1..Len(historyEntries)}
             = Newest(SnapshotIds, 50))
  /\ [][\A i \in 1..Len(historyEntries') :
          IF historyEntries'[i].id = nextId
          THEN /\ historyEntries'[i].fileId = activeFileId
               /\ historyEntries'[i].content = ContentOf(files, activeFileId)
          ELSE \E j \in 1..Len(historyEntries) :
                 historyEntries'[i] = historyEntries[j]]_vars

(* C15: more than 50 snapshots were created, of two files. *)
C15_Witness ==
  /\ Cardinality(SnapshotIds) > 50
  /\ Len(historyEntries) = 50
  /\ historyEntries[1].fileId # historyEntries[50].fileId


(***************************************************************************)
(* SpecHistory: snapshots of several files, restored in any order.         *)
(***************************************************************************)
MaxIdsHistory == 4

MaxEditsHistory == 1

InitHistory ==
  /\ createDefaultDocumentState(<<"d">>)
  /\ InitRest

NextHistory ==
  \/ TypeInEditor(0, 0, <<"x">>, MaxEditsHistory)
  \/ addFile([name |-> "a.tex", type |-> "tex", parentId |-> NoId,
              content |-> <<"n">>], MaxIdsHistory)
  \/ \E id \in KnownIds : setActiveFile(id)
  \/ \E id \in KnownIds : deleteFile(id)
  \/ saveHistoryEntry(MaxIdsHistory)
  \/ \E k \in 1..Len(historyEntries) : restoreHistoryEntry(k)

SpecHistory == InitHistory /\ [][NextHistory]_vars

(* C16: restoring an existing snapshot leaves the active file with the    *)
(* snapshot's content, and every other file with the content it had.      *)
C16_RestoreSetsActiveContent ==
  [][\A k \in 1..Len(historyEntries) :
       restoreHistoryEntry(k)
       => /\ ContentOf(files', activeFileId') = historyEntries[k].content
          /\ \A i \in 1..Len(files') :
               files'[i].id # getActiveFile(files', activeFileId')[1].id
               => files'[i].content = files[i].content]_vars


(***************************************************************************)
(* SpecWindow: a buffer longer than the search window.                     *)
(***************************************************************************)
(* "B C", 2000 characters without it, "B C" *)
DocFar == <<"B", " ", "C">> \o [i \in 1..WindowRadius |-> "x"] \o <<"B", " ", "C">>

WindowSelections == {<<0, 3>>, <<WindowRadius + 3, WindowRadius + 6>>}

WindowEdits == {[from |-> 0, to |-> 0, insert |-> <<"Z", " ">>],
                [from |-> 3, to |-> 4, insert |-> <<"Q">>]}

MaxEditsWindow == 1

MaxReqsWindow == 1

(* As InitApply, with the long buffer. *)
InitWindow ==
  /\ files = buildDefaultFiles(DocFar)
  /\ historyEntries = <<[id |-> 2, fileId |-> 1, createdAt |-> 0, content |-> <<>>]>>
  /\ activeFileId = 0
  /\ cursorPosition = 0
  /\ selectionRange = None
  /\ isSaving = FALSE
  /\ hasUnsavedChanges = FALSE
  /\ lastSavedAt = NoTime
  /\ hydratedKey = None
  /\ InitPersist
  /\ editorMounted = TRUE
  /\ timers = {}
  /\ saveDebounceRef = None
  /\ lastEditAt = NoTime
  /\ preview = None
  /\ isWorking = FALSE
  /\ instructionInput = <<>>
  /\ requests = {}
  /\ previewOwner = NoReq
  /\ capturedDoc = <<>>
  /\ nextReq = 0
  /\ nextId = 3
  /\ edits = 0
  /\ now = 0
  /\ actor = NoReq
  /\ applyLog = NoApply
  /\ treeLog = NoTreeCall

NextWindow ==
  \/ \E e \in WindowEdits : TypeInEditor(e.from, e.to, e.insert, MaxEditsWindow)
  \/ \E sel \in WindowSelections : SelectInEditor(sel[1], sel[2])
  \/ TransformSelection("polish", MaxReqsWindow)
  \/ \E r \in requests : ResponseJson(r, <<"X", " ", "Y">>, <<>>)
  \/ restoreHistoryEntry(1)
  \/ setActiveFile(0)
  \/ applyPreview

SpecWindow == InitWindow /\ [][NextWindow]_vars

(* The occurrences of needle that lie inside the window around start. *)
WindowOccurrences(doc, needle, start) ==
  {i \in Occurrences(doc, needle) :
     /\ Max(0, start - 2000) <= i
     /\ i + Len(needle) <= Min(Len(doc), start + 2000)}

(* C17: when the original text is not at its span but occurs in the       *)
(* buffer, apply replaces its first occurrence inside the window around   *)
(* the captured start, and its first occurrence in the buffer only if the *)
(* window holds none; with the editor view attached or not.                *)
C17_WindowBeforeGlobal ==
  [][(/\ ApplyStep
      /\ Slice(CurrentDoc, preview[1].start, preview[1].end) # preview[1].original
      /\ Includes(CurrentDoc, preview[1].original))
     => LET hits == WindowOccurrences(CurrentDoc, preview[1].original, preview[1].start)
            from == IF hits # {} THEN MinOf(hits)
                    ELSE IndexOf(CurrentDoc, preview[1].original)
        IN  NextDoc = ReplaceRange(CurrentDoc, from, from + Len(preview[1].original),
                                   preview[1].next)]_vars


(***************************************************************************)
(* SpecStream: a streamed transform, edits while it runs, and what the     *)
(* user does with the preview.                                             *)
(***************************************************************************)
StreamTexts == {<<"X">>, <<" ", "Y">>}

StreamEvents ==
  {[type |-> "done"],
   [type |-> "analysis", changes |-> BarChanges],
   [type |-> "error", error |-> <<"e">>]}
  \cup {[type |-> "text-delta", delta |-> t] : t \in StreamTexts}

MaxReqsStream == 2

MaxLinesStream == 2

MaxEditsStream == 1

InitStream ==
  /\ createDefaultDocumentState(DocSpec)
  /\ InitRest

NextStream ==
  \/ SelectInEditor(2, 5)
  \/ TypeInEditor(0, 0, <<"Z", " ">>, MaxEditsStream)
  \/ TransformSelection("polish", MaxReqsStream)
  \/ Regenerate("polish", MaxReqsStream)
  \/ DismissPreview(TRUE)
  \/ applyPreview
  \/ \E r \in requests : ResponseFails(r, <<"f">>)
  \/ \E r \in requests : ResponseJson(r, <<"X">>, BarChanges)
  \/ \E r \in requests : ResponseStreams(r)
  \/ \E r \in requests, obj \in StreamEvents : StreamLine(r, obj, MaxLinesStream)
  \/ \E r \in requests : StreamEnds(r)
  \/ \E r \in requests : StreamFails(r, <<"f">>)

SpecStream == InitStream /\ [][NextStream]_vars

(* The span a preview holds. *)
SpanOf(p) == <<p[1].start, p[1].end, p[1].original>>

(* C19: a step of a request (a stream event, the end of the response, a   *)
(* transport failure) changes no file, not the cursor, not the selection  *)
(* and not the span of the preview; an edit of the buffer leaves the span *)
(* of the preview as it is, too.                                           *)
C19_StreamingLeavesSpanAndBuffer ==
  /\ [][(actor' # NoReq)
        => /\ UNCHANGED <<files, cursorPosition, selectionRange>>
           /\ preview # None => (preview' # None /\ SpanOf(preview') = SpanOf(preview))]_vars
  /\ [][(edits' # edits /\ preview # None)
        => (preview' # None /\ SpanOf(preview') = SpanOf(preview))]_vars

(* C19: the buffer was edited while the request streamed, and two lines   *)
(* of the stream were handled since.                                       *)
C19_Witness ==
  /\ actor # NoReq
  /\ edits = 1
  /\ CurrentDoc # capturedDoc
  /\ preview # None
  /\ SpanOf(preview) = <<2, 5, Slice(capturedDoc, 2, 5)>>
  /\ preview[1].next # <<>>
  /\ \E r \in requests : r.id = actor /\ r.lines = 2

(* The status of the preview; "none" when there is none. *)
StatusOf(p) == IF p = None THEN "none" ELSE p[1].status

(* C20: the status of the preview goes from none to loading only, from    *)
(* loading on to ready or error, and from ready never to error, nor from  *)
(* error to ready; a call of apply on a preview that is not ready changes *)
(* nothing.                                                                *)
C20_PreviewStateMachine ==
  /\ [][/\ StatusOf(preview) = "none"
           => StatusOf(preview') \in {"none", "loading"}
        /\ StatusOf(preview) = "loading"
           => StatusOf(preview') \in {"loading", "ready", "error", "none"}
        /\ StatusOf(preview) = "ready"
           => StatusOf(preview') \in {"ready", "loading", "none"}
        /\ StatusOf(preview) = "error"
           => StatusOf(preview') \in {"error", "loading", "none"}]_vars
  /\ [][(ApplyCall /\ StatusOf(preview) # "ready")
        => UNCHANGED <<files, cursorPosition, preview>>]_vars


(***************************************************************************)
(* SpecDelta: the lines of one streamed response, in any order.            *)
(***************************************************************************)
MaxReqsDelta == 1

MaxLinesDelta == 3

InitDelta ==
  /\ createDefaultDocumentState(DocSpec)
  /\ InitRest

NextDelta ==
  \/ SelectInEditor(2, 5)
  \/ TransformSelection("polish", MaxReqsDelta)
  \/ DismissPreview(TRUE)
  \/ \E r \in requests : ResponseStreams(r)
  \/ \E r \in requests, obj \in StreamEvents \cup {[type |-> "meta"]} :
       StreamLine(r, obj, MaxLinesDelta)
  \/ \E r \in requests : StreamEnds(r)
  \/ \E r \in requests : StreamFails(r, <<"f">>)

SpecDelta == InitDelta /\ [][NextDelta]_vars

(* C21: until its done line arrives, the text of the preview a request    *)
(* installed is the payloads of the text-delta lines received so far, in  *)
(* the order of their arrival, whatever analysis lines came in between.   *)
C21_InOrderDeltas ==
  \A r \in requests :
    (r.id = previewOwner /\ ~r.orphan /\ preview # None /\ ~r.sawDone)
    => preview[1].next = r.received

(* C21: a delta, an analysis and a second delta have arrived, no done.    *)
C21_Witness ==
  /\ preview # None
  /\ preview[1].changes # <<>>
  /\ \E r \in requests :
       /\ r.id = previewOwner
       /\ ~r.sawDone
       /\ r.lines = 3
       /\ r.received = <<"X", " ", "Y">>


(***************************************************************************)
(* Offsets into the active file, checked under SpecApply.                  *)
(***************************************************************************)
(* C22: the stored cursor and the ends of the stored selection lie inside *)
(* the content of the active file.                                         *)
C22_OffsetsNeverDangle ==
  /\ 0 <= cursorPosition
  /\ cursorPosition <= Len(CurrentDoc)
  /\ selectionRange # None
     => /\ 0 <= selectionRange[1].start
        /\ selectionRange[1].start <= selectionRange[1].end
        /\ selectionRange[1].end <= Len(CurrentDoc)


(***************************************************************************)
(* SpecEdit: the store's editing actions called on their own.              *)
(***************************************************************************)
Run(ch, n) == [i \in 1..n |-> ch]

(* "A B  C aaaaaa  bbbbbb cc dddddddd  eeeeeee" *)
EditDoc ==
  <<"A", " ", "B", " ", " ", "C", " ">> \o Run("a", 6) \o <<" ", " ">> \o
  Run("b", 6) \o <<" ", "c", "c", " ">> \o Run("d", 8) \o <<" ", " ">> \o
  Run("e", 7)

(* Needles: empty; literal; literal, twice; absent; three tokens but      *)
(* shorter than 16; 16 long but two tokens; fuzzy match; fuzzy, no match. *)
EditFinds ==
  {<<>>,
   <<"B">>,
   <<"a", "a">>,
   <<"Z">>,
   <<"A", " ", "B", " ", "C">>,
   Run("d", 8) \o <<" ">> \o Run("e", 7),
   Run("a", 6) \o <<" ">> \o Run("b", 6) \o <<" ", "c", "c">>,
   Run("a", 6) \o <<" ">> \o Run("b", 6) \o <<" ", "c", "d">>}

EditTexts == {<<"X">>, <<"$", "$">>}

EditRanges == {<<2, 5>>, <<7, 13>>}

MaxEditsEdit == 1

MaxIdsEdit == 2

(* findAndReplace(find, replace) called on the store; treeLog.ignored     *)
(* records that it returned false.                                         *)
CallFindAndReplace(find, replace, maxEdits) ==
  /\ edits < maxEdits
  /\ edits' = edits + 1
  /\ IF FindAndReplaceContent(files, activeFileId, find, replace) # None
     THEN /\ findAndReplace(find, replace)
          /\ TreeCall("findAndReplace", NoId, FALSE)
     ELSE /\ UNCHANGED <<storeVars, storage>>
          /\ TreeCall("findAndReplace", NoId, TRUE)
  /\ UNCHANGED <<persistFrame, editorVars, barVars, nextId, now, applyLog>>
  /\ UserStep

(* replaceSelection(start, end, text) called on the store. *)
CallReplaceSelection(start, end, text, maxEdits) ==
  /\ edits < maxEdits
  /\ edits' = edits + 1
  /\ replaceSelection(start, end, text)
  /\ TreeCall("replaceSelection", NoId,
              ~(getActiveFile(files, activeFileId) # None
                /\ getActiveFile(files, activeFileId)[1].type = "tex"))
  /\ UNCHANGED <<persistFrame, editorVars, barVars, nextId, now, applyLog>>
  /\ UserStep

InitEdit ==
  /\ createDefaultDocumentState(EditDoc)
  /\ InitRest

NextEdit ==
  \/ \E sel \in EditRanges : SelectInEditor(sel[1], sel[2])
  \/ \E text \in EditTexts : insertAtCursor(text, MaxEditsEdit)
  \/ \E sel \in EditRanges, text \in EditTexts :
       CallReplaceSelection(sel[1], sel[2], text, MaxEditsEdit)
  \/ \E find \in EditFinds, replace \in EditTexts :
       CallFindAndReplace(find, replace, MaxEditsEdit)
  \/ addFile([name |-> "refs.bib", type |-> "bib", parentId |-> NoId,
              content |-> <<"r">>], MaxIdsEdit)
  \/ \E id \in 0..(nextId - 1) : setActiveFile(id)

SpecEdit == InitEdit /\ [][NextEdit]_vars

ActiveIsTex ==
  /\ getActiveFile(files, activeFileId) # None
  /\ getActiveFile(files, activeFileId)[1].type = "tex"

(* C23: insertAtCursor(text) and replaceSelection(start, end, text) put    *)
(* the text in place, leave the cursor immediately after it and leave the  *)
(* stored selection null, whatever the selection was before.               *)
C23_CursorAfterTextSelectionCleared ==
  [][/\ \A text \in EditTexts :
          insertAtCursor(text, MaxEditsEdit)
          => /\ CurrentDoc' = ReplaceRange(CurrentDoc, cursorPosition,
                                           cursorPosition, text)
             /\ cursorPosition' = cursorPosition + Len(text)
             /\ selectionRange' = None
     /\ \A sel \in EditRanges, text \in EditTexts :
          (ActiveIsTex /\ CallReplaceSelection(sel[1], sel[2], text, MaxEditsEdit))
          => /\ CurrentDoc' = ReplaceRange(CurrentDoc, sel[1], sel[2], text)
             /\ cursorPosition' = sel[1] + Len(text)
             /\ selectionRange' = None]_vars

(* The needle occurs literally in the active text file. *)
LiteralHit(find) == ActiveIsTex /\ find # <<>> /\ Includes(CurrentDoc, find)

(* C24: when the needle is not empty and occurs literally, findAndReplace  *)
(* returns true and the new content is the old one with the first          *)
(* occurrence replaced by the replacement string, inserted verbatim.       *)
C24_LiteralTierVerbatim ==
  [][\A find \in EditFinds, replace \in EditTexts :
       (LiteralHit(find) /\ CallFindAndReplace(find, replace, MaxEditsEdit))
       => /\ treeLog'.ignored = FALSE
          /\ CurrentDoc' = ReplaceRange(CurrentDoc, IndexOf(CurrentDoc, find),
                                        IndexOf(CurrentDoc, find) + Len(find),
                                        replace)]_vars

(* Neither tier of findAndReplace applies to the needle. *)
NoTierApplies(find) ==
  \/ ~ActiveIsTex
  \/ find = <<>>
  \/ /\ ~Includes(CurrentDoc, find)
     /\ \/ Len(Trim(find)) < FuzzyMinLen
        \/ Len(SplitWhitespace(Trim(find))) < FuzzyMinTokens
        \/ RegexSearch(CurrentDoc, SplitWhitespace(Trim(find))) = None

(* C25: findAndReplace returns false and changes nothing when the needle   *)
(* is empty, the active file is not a text file, or the needle does not    *)
(* occur literally and is shorter than 16 characters trimmed, has fewer    *)
(* than 3 tokens, or its whitespace-tolerant pattern does not match.       *)
C25_NoMatchChangesNothing ==
  [][\A find \in EditFinds, replace \in EditTexts :
       (NoTierApplies(find) /\ CallFindAndReplace(find, replace, MaxEditsEdit))
       => /\ treeLog'.ignored = TRUE
          /\ UNCHANGED <<storeVars, storage>>]_vars

(* findAndReplace has returned false on the text file and on the other. *)
C25_Witness ==
  /\ treeLog = [op |-> "findAndReplace", id |-> NoId, ignored |-> TRUE]
  /\ storage[DefaultKey] # None
  /\ ContentOf(files, 0) = EditDoc


(***************************************************************************)
(* SpecRoundTrip: a project with a second file is left and opened again.   *)
(***************************************************************************)
MaxIdsRound == 2

MaxHydrationsRound == 1

(* Project a is open and hydrated; the legacy key may hold a document. *)
InitRoundTrip ==
  /\ files = buildDefaultFiles(DocA)
  /\ activeFileId = 0
  /\ cursorPosition = 0
  /\ selectionRange = None
  /\ isSaving = FALSE
  /\ hasUnsavedChanges = FALSE
  /\ lastSavedAt = NoTime
  /\ historyEntries = <<>>
  /\ hydratedKey = Some("project-a")
  /\ persistName = "project-a"
  /\ activeProjectId = Some("project-a")
  /\ hydration = {}
  /\ \E l \in {None, Some(ProjectState(DocLegacy))} :
       storage = [k \in StorageKeys |->
                    IF k = "project-a" THEN Some(ProjectState(DocA))
                    ELSE IF k = LegacyKey THEN l
                    ELSE None]
  /\ InitEditor

NextRoundTrip ==
  \/ \E id \in ProjectKeys : setActiveProject(id, MaxHydrationsRound)
  \/ \E h \in hydration : HydrationHasDocument(h)
  \/ \E h \in hydration : HydrationLegacyGet(h)
  \/ \E h \in hydration : HydrationLegacySet(h)
  \/ \E h \in hydration : HydrationLegacyRemove(h)
  \/ \E h \in hydration : HydrationHasCurrent(h)
  \/ \E h \in hydration : HydrationMerge(h)
  \/ \E h \in hydration : HydrationSetHydratedKey(h)
  \/ addFile([name |-> "a.tex", type |-> "tex", parentId |-> NoId,
              content |-> <<"n">>], MaxIdsRound)
  \/ \E id \in 0..(nextId - 1) : setActiveFile(id)
  \/ saveHistoryEntry(MaxIdsRound)

SpecRoundTrip == InitRoundTrip /\ [][NextRoundTrip]_vars

(* C26: rehydrating restores the file tree, the active file id, the        *)
(* history snapshots and the last-saved timestamp to exactly the values    *)
(* that were persisted under the key.                                      *)
C26_PersistenceRoundTrip ==
  [][\A h \in hydration :
       (HydrationMerge(h) /\ h.data # None)
       => /\ files' = h.data[1].files
          /\ activeFileId' = h.data[1].activeFileId
          /\ historyEntries' = h.data[1].historyEntries
          /\ lastSavedAt' = h.data[1].lastSavedAt]_vars


(***************************************************************************)
(* SpecEquiv: the transform route answers with one JSON object.            *)
(***************************************************************************)
(* A route that returns the text as the model gave it. *)
NonStreamResponseUntrimmed(text, changes) ==
  [ok |-> TRUE, text |-> text, changes |-> StringsOf(changes)]

(* NextResponse.json({ok: true, text: text.trim(), changes}), with the   *)
(* changes filtered to strings and cut to 12.                              *)
NonStreamResponse(text, changes) ==
  [ok |-> TRUE, text |-> Trim(text), changes |-> StringsOf(changes)]

(* The preview after meta, one text-delta with the whole text, analysis   *)
(* and done have been handled in this order.                               *)
StreamedPreview(prev, text, changes) ==
  handleLine(
    handleLine(
      handleLine(
        handleLine(prev, [type |-> "meta"]),
        [type |-> "text-delta", delta |-> text]),
      [type |-> "analysis", changes |-> changes]),
    [type |-> "done"])

ManyChanges ==
  [i \in 1..(AnalysisCap + 1) |-> [type |-> "string", value |-> "c"]]
  \o <<[type |-> "number", value |-> "1"]>>

(* What the backend produced: the text and the change summary. *)
BackendResults ==
  {[text |-> t, changes |-> c] :
     t \in {<<>>, <<"X">>, <<" ", "Y", " ">>, <<"X", " ", "Y">>},
     c \in {<<>>, BarChanges, ManyChanges}}

MaxReqsEquiv == 2

InitEquiv ==
  /\ createDefaultDocumentState(DocSpec)
  /\ InitRest

NextEquiv ==
  \/ \E sel \in {<<2, 5>>, <<4, 7>>} : SelectInEditor(sel[1], sel[2])
  \/ TransformSelection("polish", MaxReqsEquiv)
  \/ DismissPreview(TRUE)
  \/ \E r \in requests, res \in BackendResults :
       ResponseJson(r, NonStreamResponse(res.text, res.changes).text,
                    NonStreamResponse(res.text, res.changes).changes)

SpecEquiv == InitEquiv /\ [][NextEquiv]_vars

(* C27: for the same backend result, the preview the single-response path *)
(* leaves equals the preview left by handling meta, one text-delta with   *)
(* the whole text, analysis with the changes, and done: status ready, the *)
(* same text, the same change summary of at most 12 strings.              *)
C27_NonStreamingEquivalence ==
  [][\A r \in requests, res \in BackendResults :
       (/\ ResponseJson(r, NonStreamResponse(res.text, res.changes).text,
                        NonStreamResponse(res.text, res.changes).changes)
        /\ preview # None)
       => /\ preview' = StreamedPreview(preview, res.text, res.changes)
          /\ preview'[1].status = "ready"
          /\ Len(preview'[1].changes) <= AnalysisCap]_vars

(* A single response with padded text and 13 changes has been handled. *)
C27_Witness ==
  /\ preview # None
  /\ preview[1].status = "ready"
  /\ preview[1].next = <<"Y">>
  /\ Len(preview[1].changes) = AnalysisCap
  /\ actor # NoReq
  /\ requests = {}


(***************************************************************************)
(* The end of a runTransform call, checked under SpecDelta.                *)
(***************************************************************************)
(* No call of the mounted bar is in flight. *)
NoCallInFlight == \A r \in requests : r.orphan

(* C28: once the response of a transform request has terminated (the       *)
(* stream closed, with or without a done record, or the fetch or a read    *)
(* failed), isWorking is false and the preview, unless dismissed, is ready *)
(* or error: no preview stays loading.                                     *)
C28_NoPreviewStaysLoading ==
  NoCallInFlight
  => /\ isWorking = FALSE
     /\ preview # None => preview[1].status \in {"ready", "error"}


(***************************************************************************)
(* SpecActive: the file-tree and history actions, on nodes that exist.     *)
(***************************************************************************)
MaxIdsActive == 3

MaxHydrationsActive == 1

(* Project a is open and hydrated; the legacy key may hold a document. *)
InitActive == InitRoundTrip

NextActive ==
  \/ addFile([name |-> "a.tex", type |-> "tex", parentId |-> NoId,
              content |-> <<"n">>], MaxIdsActive)
  \/ addFolder("f", NoId, MaxIdsActive)
  \/ \E i \in 1..Len(files), j \in 1..Len(files) : moveFile(files[i].id, files[j].id)
  \/ \E i \in 1..Len(files) : deleteFile(files[i].id)
  \/ saveHistoryEntry(MaxIdsActive)
  \/ \E k \in 1..Len(historyEntries) : restoreHistoryEntry(k)
  \/ \E id \in ProjectKeys : setActiveProject(id, MaxHydrationsActive)
  \/ \E h \in hydration : HydrationHasDocument(h)
  \/ \E h \in hydration : HydrationLegacyGet(h)
  \/ \E h \in hydration : HydrationLegacySet(h)
  \/ \E h \in hydration : HydrationLegacyRemove(h)
  \/ \E h \in hydration : HydrationHasCurrent(h)
  \/ \E h \in hydration : HydrationMerge(h)
  \/ \E h \in hydration : HydrationSetHydratedKey(h)

SpecActive == InitActive /\ [][NextActive]_vars

(* C29: activeFileId is the id of an existing node that is not a folder,   *)
(* so that setContent and the content getter address the same file: after  *)
(* setContent(c) the getter returns c.                                     *)
C29_ActiveFileValidity ==
  /\ FileById(files, activeFileId) # None
  /\ FileById(files, activeFileId)[1].type # "folder"
  /\ ContentOf(WithContent(files, activeFileId, <<"c">>), activeFileId) = <<"c">>


(***************************************************************************)
(* The transform route's stream: ReadableStream.start of POST.  A request  *)
(* carries the route's position (srv) and the records it has enqueued      *)
(* (sent).                                                                 *)
(***************************************************************************)
ServerFrame ==
  /\ UNCHANGED <<preview, isWorking, instructionInput, previewOwner, nextReq, capturedDoc>>
  /\ UNCHANGED <<storeVars, persistVars, editorVars, nextId, now, edits, applyLog, treeLog>>
  /\ UserStep

Send(r, srv, records) ==
  requests' = (requests \ {r}) \cup {[r EXCEPT !.srv = srv, !.sent = r.sent \o records]}

(* send({type: "meta", mode, modelName}) *)
ServerSendMeta(r) ==
  /\ r \in requests
  /\ r.srv = "start"
  /\ Send(r, "text", <<[type |-> "meta"]>>)
  /\ ServerFrame

(* for await (const delta of textResult.textStream) send(text-delta) *)
ServerSendDelta(r, delta, maxDeltas) ==
  /\ r \in requests
  /\ r.srv = "text"
  /\ Len(r.sent) <= maxDeltas
  /\ Send(r, "text", <<[type |-> "text-delta", delta |-> delta]>>)
  /\ ServerFrame

(* The text stream ends: the route asks for the analysis. *)
ServerTextEnds(r) ==
  /\ r \in requests
  /\ r.srv = "text"
  /\ Send(r, "analysis", <<>>)
  /\ ServerFrame

(* The analysis came back with changes, or failed and changes = []:       *)
(* send(analysis); send(done); controller.close().                         *)
ServerAnalysis(r, changes) ==
  /\ r \in requests
  /\ r.srv = "analysis"
  /\ Send(r, "closed", <<[type |-> "analysis", changes |-> StringsOf(changes)],
                         [type |-> "done"]>>)
  /\ ServerFrame

(* A catch block that closes the stream after the error record. *)
ServerFailsWithoutDone(r, message) ==
  /\ r \in requests
  /\ r.srv = "text"
  /\ Send(r, "closed", <<[type |-> "error", error |-> message]>>)
  /\ ServerFrame

(* streamText or the text stream throws: the outer catch block,           *)
(* send(error); send(done); controller.close().                            *)
ServerFails(r, message) ==
  /\ r \in requests
  /\ r.srv = "text"
  /\ Send(r, "closed", <<[type |-> "error", error |-> message], [type |-> "done"]>>)
  /\ ServerFrame

(***************************************************************************)
(* SpecServer: the bar reads what the route has sent.                      *)
(***************************************************************************)
MaxReqsServer == 1

MaxDeltasServer == 2

InitServer ==
  /\ createDefaultDocumentState(DocSpec)
  /\ InitRest

NextServer ==
  \/ SelectInEditor(2, 5)
  \/ TransformSelection("polish", MaxReqsServer)
  \/ DismissPreview(TRUE)
  \/ \E r \in requests : ServerSendMeta(r)
  \/ \E r \in requests, t \in StreamTexts : ServerSendDelta(r, t, MaxDeltasServer)
  \/ \E r \in requests : ServerTextEnds(r)
  \/ \E r \in requests, c \in {<<>>, BarChanges} : ServerAnalysis(r, c)
  \/ \E r \in requests : ServerFails(r, <<"e">>)
  \/ \E r \in requests : ResponseStreams(r)
  \/ \E r \in requests :
       /\ r.lines < Len(r.sent)
       /\ StreamLine(r, r.sent[r.lines + 1], Len(r.sent))
  \/ \E r \in requests :
       /\ r.srv = "closed"
       /\ r.lines = Len(r.sent)
       /\ StreamEnds(r)

SpecServer == InitServer /\ [][NextServer]_vars

TypeAt(r, i) == r.sent[i].type

(* C30: the records of a streamed response are meta first, then zero or    *)
(* more text-delta, then exactly one analysis (success) or one error       *)
(* (backend failure), then exactly one done, which is the last record of   *)
(* a closed stream; nothing follows an error but done.                     *)
C30_StreamProtocolOrder ==
  \A r \in requests :
    /\ r.sent # <<>> => TypeAt(r, 1) = "meta"
    /\ \A i \in 2..Len(r.sent) :
         /\ TypeAt(r, i) \in {"text-delta", "analysis", "error", "done"}
         /\ TypeAt(r, i) \in {"text-delta", "analysis", "error"}
            => TypeAt(r, i - 1) \in {"meta", "text-delta"}
         /\ TypeAt(r, i) = "done"
            => /\ TypeAt(r, i - 1) \in {"analysis", "error"}
               /\ i = Len(r.sent)
    /\ r.srv = "closed" <=> (r.sent # <<>> /\ TypeAt(r, Len(r.sent)) = "done")

(* A stream that failed after one delta, closed and read to its end. *)
C30_Witness ==
  \E r \in requests :
    /\ r.srv = "closed"
    /\ Len(r.sent) = 4
    /\ TypeAt(r, 2) = "text-delta"
    /\ TypeAt(r, 3) = "error"
    /\ r.lines = 4

====
